---- MODULE Spec2Model ----
(***************************************************************************)
(* CalAi food recognition: the inference server (ai/model_server.py and    *)
(* ai/model_server_new.py) and the training loop (ai/train.py).            *)
(*                                                                         *)
(* Spec          : the inference server: startup_event, the four HTTP      *)
(*                 handlers and the passing of time.                       *)
(* SpecTrain     : main() of train.py: prepare_data, build_model, train()  *)
(*                 with one statement of the epoch loop per action, test() *)
(*                 and the export.                                         *)
(* SpecTrainFair : SpecTrain with the statements taken one after another.  *)
(* SpecNutrition : CalAiModelServer._estimate_nutrition, one call.         *)
(* SpecModel     : FoodClassificationModel(...), one construction.         *)
(* SpecExport    : export_model_to_onnx (ai/export_onnx.py), one run.      *)
(* SpecData      : FoodTrainer.prepare_data, run over one directory tree.  *)
(* SpecHead      : the nutrition head's outputs formatted by predict.      *)
(* SpecDownload  : download_all and download_dataset                       *)
(*                 (ai/scripts/download_datasets.py) over one directory.   *)
(***************************************************************************)
EXTENDS Integers, Sequences, FiniteSets, TLC

VARIABLES
    variant,        \* which server module runs: "model_server" or "model_server_new"
    MODEL_PATH,     \* what lies at MODEL_PATH: the checkpoint file (never written by the server)
    model_server,   \* the global CalAiModelServer instance: model, transform, model_info, class_names
    started,        \* startup_event has run
    load_result,    \* what load_model returned in startup_event: "none", "true", "false"
    topk_ties,      \* how this build's torch.topk orders equal values: "low" or "high" index first
    clock,          \* asyncio.get_event_loop().time()
    request,        \* the last request served
    response,       \* the response to it
    previous,       \* the response before it, if that answered the same GET endpoint
    pc,             \* train.py: position in main() and in the epoch loop of train()
    epoch,          \* FoodTrainer.train(): loop variable
    best_val_acc,   \* FoodTrainer.train(): local best_val_acc
    val_acc,        \* FoodTrainer.train(): local val_acc of the current epoch
    best_model_pth, \* models/best_model.pth as written by save_model
    epoch_log,      \* per epoch that reached "Save best model": its val_acc, the number of
                    \* save_model calls and the parameters it trained
    epochs,         \* config['epochs']
    params,         \* self.model.state_dict(): how many optimizer steps have updated it
    raised,         \* the step whose exception ended the run, "" if none did
    main_log,       \* the phases main() has entered, in order
    export_onnx,    \* args.export_onnx was given
    trainer,        \* FoodTrainer: self.model (None, or its mode) and whether the loaders are set
    batches,        \* len(self.train_loader)
    batch,          \* batches of the current epoch that have been trained
    batch_ops,      \* the calls made for the current batch, in order
    scheduler,      \* the CosineAnnealingLR of train(): T_max and the step() calls so far
    validate_calls, \* calls of self.validate() in train()
    test_results,   \* what test() returned: the parameters it measured
    lookup_name,    \* _estimate_nutrition: the argument
    estimate,       \* _estimate_nutrition: the value returned, NoNutrition before the call
    ctor_args,      \* FoodClassificationModel(...): the module of the class and the arguments
    ctor_result,    \* FoodClassificationModel(...): the model built or the exception raised
    export_ckpt,    \* export_model_to_onnx: what torch.load finds at model_path
    export_files,   \* export_model_to_onnx: the .onnx file at output_path and the .json beside it
    export_result,  \* export_model_to_onnx: "none" before the call, "returned", or the exception
    food101_dir,    \* prepare_data: the contents of <data_dir>/food101
    prepared,       \* prepare_data: how the last run ended, its class_names, labels and datasets
    prepared_before,\* prepare_data: the class_names of the run before the last
    runs,           \* prepare_data: how many runs there have been over food101_dir
    head_module,    \* nutrition head: the server module whose predict formats the output
    nutrition_outputs, \* nutrition head: its four outputs for the picture, in hundredths
    head_nutrition, \* nutrition head: the "estimated_nutrition" of the prediction
    dl_pc,          \* download_datasets.py: "idle", or "scan" inside download_all
    data_dirs,      \* per dataset, the state of its directory under data_dir
    max_size_gb,    \* download_all: the limit, in units of 1/1024 GB
    scan_pos,       \* download_all: position of the loop in sorted_datasets
    total_size,     \* download_all: local total_size, in units of 1/1024 GB
    downloaded,     \* download_all: local list downloaded
    scan_log,       \* download_all: per dataset visited, its name and how the pass ended
    metadata_json,  \* data_dir/metadata.json: the names of its 'datasets' entries
    results,        \* per dataset, how the calls of download_dataset have ended so far
    last_call,      \* the last call of download_dataset, and the results before it
    all_ran,        \* download_all has been run over the data directory
    single_calls    \* runs of main() with --dataset so far

serverVars == <<variant, MODEL_PATH, model_server, started, load_result, topk_ties, clock,
                request, response, previous>>
trainVars == <<pc, epoch, best_val_acc, val_acc, best_model_pth, epoch_log, epochs,
               params, raised, main_log, export_onnx, trainer, batches, batch, batch_ops,
               scheduler, validate_calls, test_results>>
nutritionVars == <<lookup_name, estimate>>
\* the variables of the offline functions and tools, which the server and
\* the training loop never touch
ctorVars == <<ctor_args, ctor_result>>
exportVars == <<export_ckpt, export_files, export_result>>
dataVars == <<food101_dir, prepared, prepared_before, runs>>
headVars == <<head_module, nutrition_outputs, head_nutrition>>
downloadVars == <<dl_pc, data_dirs, max_size_gb, scan_pos, total_size, downloaded, scan_log,
                  metadata_json, results, last_call, all_ran, single_calls>>
toolVars == <<nutritionVars, ctorVars, exportVars, dataVars, headVars, downloadVars>>
vars == <<variant, MODEL_PATH, model_server, started, load_result, topk_ties, clock,
          request, response, previous,
          pc, epoch, best_val_acc, val_acc, best_model_pth, epoch_log, epochs,
          params, raised, main_log, export_onnx, trainer, batches, batch, batch_ops,
          scheduler, validate_calls, test_results,
          lookup_name, estimate, ctor_args, ctor_result,
          export_ckpt, export_files, export_result,
          food101_dir, prepared, prepared_before, runs,
          head_module, nutrition_outputs, head_nutrition,
          dl_pc, data_dirs, max_size_gb, scan_pos, total_size, downloaded, scan_log,
          metadata_json, results, last_call, all_ran, single_calls>>

(***************************************************************************)
(* Bounds of the model                                                     *)
(***************************************************************************)
MaxCkptClasses == 3     \* class counts 2..MaxCkptClasses of a trainer checkpoint
MaxTopK == 4            \* top_k of a request: -1..MaxTopK, and around the ceiling and the class count
MaxClock == 1           \* the event loop clock is observed at 0..MaxClock
MaxEpochs == 3          \* config['epochs'] ranges over 1..MaxEpochs
MaxAcc == 3             \* validation accuracies are 0..MaxAcc (0 is 0.0)
MaxImages == 2          \* a class directory holds 0..MaxImages .jpg files
MaxBatches == 2         \* batches of the train loader: 1..MaxBatches
MaxSingleCalls == 1     \* runs of main() with --dataset over one data directory
MaxRuns == 2            \* prepare_data runs at most MaxRuns times over one directory
WeightMod == 53         \* class weights of an image are 1..WeightMod

Min(a, b) == IF a < b THEN a ELSE b
Max(a, b) == IF a > b THEN a ELSE b

(***************************************************************************)
(* Program constants                                                       *)
(***************************************************************************)
FOOD101_CLASSES == <<
    "apple_pie", "baby_back_ribs", "baklava", "beef_carpaccio", "beef_tartare", "beet_salad",
    "beignets", "bibimbap", "bread_pudding", "breakfast_burrito", "bruschetta", "caesar_salad",
    "cannoli", "caprese_salad", "carrot_cake", "ceviche", "cheese_plate", "cheesecake",
    "chicken_curry", "chicken_quesadilla", "chicken_wings", "chocolate_cake", "chocolate_mousse",
    "churros", "clam_chowder", "club_sandwich", "crab_cakes", "creme_brulee", "croque_madame",
    "cup_cakes", "deviled_eggs", "donuts", "dumplings", "edamame", "eggs_benedict", "escargots",
    "falafel", "filet_mignon", "fish_and_chips", "foie_gras", "french_fries", "french_onion_soup",
    "french_toast", "fried_calamari", "fried_rice", "frozen_yogurt", "garlic_bread", "gnocchi",
    "greek_salad", "grilled_cheese_sandwich", "grilled_salmon", "guacamole", "gyoza", "hamburger",
    "hot_and_sour_soup", "hot_dog", "huevos_rancheros", "hummus", "ice_cream", "lasagna",
    "lobster_bisque", "lobster_roll_sandwich", "macaroni_and_cheese", "macarons", "miso_soup",
    "mussels", "nachos", "omelette", "onion_rings", "oysters", "pad_thai", "paella", "pancakes",
    "panna_cotta", "peking_duck", "pho", "pizza", "pork_chop", "poutine", "prime_rib", "pulled_pork_sandwich",
    "ramen", "ravioli", "red_velvet_cake", "risotto", "samosa", "sashimi", "scallops", "seaweed_salad",
    "shrimp_and_grits", "spaghetti_bolognese", "spaghetti_carbonara", "spring_rolls", "steak", "strawberry_shortcake",
    "sushi", "tacos", "takoyaki", "tiramisu", "tuna_tartare", "waffles" >>

\* top_k=min(top_k, 10) in predict_food and predict_food_base64
TopKCeiling == 10

\* top_k: int = Form(default=3), request.get("top_k", 3)
DefaultTopK == 3

\* "epoch": "final" and "accuracy": "best_trained_model" of model_server.py,
\* kept apart from every epoch number and accuracy of a checkpoint
EpochFinal == -1
AccuracyBestTrained == -1

SupportedArchs == {"efficientnet_b0", "mobilenet_v2", "resnet50"}

(***************************************************************************)
(* The checkpoint file at MODEL_PATH                                       *)
(*   missing    : no file                                                  *)
(*   corrupt    : a file torch.load cannot read                            *)
(*   state_dict : a bare state dict of efficientnet_b0 whose classifier    *)
(*                has len(FOOD101_CLASSES) outputs                         *)
(*   trainer    : the dict FoodTrainer.save_model writes                   *)
(***************************************************************************)
NoCheckpoint(kind) ==
    [kind |-> kind, model_name |-> "", num_classes |-> 0, epoch |-> 0,
     accuracy |-> 0, class_names |-> <<>>]

TrainerCheckpoint(name, n, ep, acc) ==
    [kind |-> "trainer", model_name |-> name, num_classes |-> n, epoch |-> ep,
     accuracy |-> acc, class_names |-> SubSeq(FOOD101_CLASSES, 1, n)]

Checkpoints ==
    {NoCheckpoint("missing"), NoCheckpoint("corrupt"), NoCheckpoint("state_dict")}
    \cup {TrainerCheckpoint("efficientnet_b0", n, 1, 2) : n \in 2..MaxCkptClasses}
    \cup {TrainerCheckpoint("no_such_arch", 2, 1, 2)}

(***************************************************************************)
(* FoodClassificationModel                                                 *)
(***************************************************************************)
\* the modules that define the class
ModelModules == {"train", "model_server_new", "model_server_old"}

\* the names the if/elif chain of the class handles itself
BuiltinArchs(module) ==
    IF module = "model_server_old" THEN {"efficientnet_b0"} ELSE SupportedArchs

\* names of the registry of the installed timm, which timm.create_model builds
TimmModels == {"resnet18"}

\* feature_dim of a backbone
FeatureDim(model_name) ==
    CASE model_name \in {"efficientnet_b0", "mobilenet_v2"} -> 1280
      [] model_name = "resnet50" -> 2048
      [] OTHER -> 512                       \* self.backbone.num_features of resnet18

NotConstructed == [raised |-> "none", model_name |-> "", num_classes |-> 0,
                   feature_dim |-> 0, weights |-> ""]

\* the else branch building efficientnet_b0 for every name it does not know
FoodClassificationModel_default(module, num_classes, model_name, pretrained) ==
    [raised |-> "", model_name |-> "efficientnet_b0", num_classes |-> num_classes,
     feature_dim |-> 1280, weights |-> "random"]

\* FoodClassificationModel.__init__ of the module: the model, or the
\* exception that leaves the constructor
FoodClassificationModel(module, num_classes, model_name, pretrained) ==
    LET built == [raised |-> "", model_name |-> model_name, num_classes |-> num_classes,
                  feature_dim |-> FeatureDim(model_name),
                  weights |-> IF pretrained /\ module # "model_server_old"
                              THEN "pretrained" ELSE "random"]
    IN  IF model_name \in BuiltinArchs(module) THEN built
        ELSE IF module = "model_server_old"
        THEN [NotConstructed EXCEPT !.raised = "ValueError"]    \* Unsupported model
        ELSE IF model_name \in TimmModels THEN built
        ELSE [NotConstructed EXCEPT !.raised = "RuntimeError"]  \* timm: Unknown model

NoCtorArgs == [module |-> "", num_classes |-> 0, model_name |-> "", pretrained |-> FALSE]

InitCtorIdle ==
    /\ ctor_args = NoCtorArgs
    /\ ctor_result = NotConstructed

(***************************************************************************)
(* export_model_to_onnx (export_onnx.py)                                   *)
(***************************************************************************)
\* the keys export_model_to_onnx reads with checkpoint[...]; "config.model_name"
\* stands for checkpoint['config']['model_name']
RequiredKeys == {"num_classes", "config.model_name", "model_state_dict", "class_names"}

\* the key it reads with checkpoint.get('accuracy', 0)
OptionalKeys == {"accuracy"}

\* a pickled dict holding the given keys of a checkpoint of save_model
ExportCheckpoint(keys, name) ==
    [kind |-> "dict", keys |-> keys, model_name |-> name, num_classes |-> 2,
     accuracy |-> 2, class_names |-> SubSeq(FOOD101_CLASSES, 1, 2)]

\* what can lie at model_path: nothing, a file that does not unpickle, a dict
ExportCheckpoints ==
    {ExportCheckpoint({}, "") ,
     [ExportCheckpoint({}, "") EXCEPT !.kind = "missing"],
     [ExportCheckpoint({}, "") EXCEPT !.kind = "corrupt"]}
    \cup {ExportCheckpoint(keys, name) :
            keys \in (SUBSET (RequiredKeys \cup OptionalKeys)) \ {{}},
            name \in {"efficientnet_b0", "resnet18", "no_such_arch"}}

\* output_path and its .json: "absent", "old" (left by an earlier export) or
\* "new" (written by this call); accuracy is the metadata's 'accuracy'
NoExportFiles == [onnx |-> "absent", metadata |-> "absent", accuracy |-> 0]
OldExportFiles == [onnx |-> "old", metadata |-> "old", accuracy |-> 1]

\* reading every key with a default, as checkpoint.get does
HasKeyOrDefault(ck, key) == TRUE

\* checkpoint[key] finds the key; KeyError otherwise
HasKey(ck, key) == key \in ck.keys

\* how the export and the check of the exported file go: both pass,
\* torch.onnx.export raises before it has written output_path, or
\* onnx.checker.check_model rejects the file that was written
OnnxSteps == {"ok", "export_raises", "check_raises"}

\* export_model_to_onnx(model_path, output_path): the files afterwards and
\* how the call ended
export_model_to_onnx(ck, files, onnx_step) ==
    LET fails(e) == [files |-> files, result |-> e]
        model == FoodClassificationModel("train", ck.num_classes, ck.model_name, FALSE)
        exported == [files EXCEPT !.onnx = "new"]       \* torch.onnx.export, onnx.load
    IN  IF ck.kind = "missing" THEN fails("FileNotFoundError")
        ELSE IF ck.kind = "corrupt" THEN fails("UnpicklingError")
        ELSE IF ~HasKey(ck, "num_classes") THEN fails("KeyError")
        ELSE IF ~HasKey(ck, "config.model_name") THEN fails("KeyError")
        ELSE IF model.raised # "" THEN fails(model.raised)
        ELSE IF ~HasKey(ck, "model_state_dict") THEN fails("KeyError")
        ELSE IF onnx_step = "export_raises" THEN fails("RuntimeError")
        ELSE IF onnx_step = "check_raises"
        THEN [files |-> exported, result |-> "ValidationError"]
        ELSE IF ~HasKey(ck, "class_names")
        THEN [files |-> exported, result |-> "KeyError"]
        ELSE [files |-> [exported EXCEPT
                            !.metadata = "new",
                            !.accuracy = IF "accuracy" \in ck.keys THEN ck.accuracy ELSE 0],
              result |-> "returned"]

InitExportIdle ==
    /\ export_ckpt = ExportCheckpoint({}, "")
    /\ export_files = NoExportFiles
    /\ export_result = "none"

(***************************************************************************)
(* FoodTrainer.prepare_data (train.py)                                     *)
(***************************************************************************)
\* names of class directories under food101/images
DirNames == {"apple_pie", "baklava", "churros"}

\* the lines f.readlines() gives for meta/classes.txt: in lexical order, in
\* another order, naming a class without a directory, naming a class twice
ClassesTxtLines ==
    {<<"apple_pie\n", "baklava\n", "churros\n">>,
     <<"churros\n", " apple_pie\n", "baklava">>,
     <<"apple_pie\n", "donuts\n", "baklava\n">>,
     <<"baklava\n", "baklava\n">>}

NoClassesTxt == [exists |-> FALSE, lines |-> <<>>]

\* <data_dir>/food101 is not there
MissingDir == [exists |-> FALSE, classes_txt |-> NoClassesTxt, images |-> <<>>]

\* the directory trees prepare_data may find: images maps each class
\* directory present to the number of .jpg files in it
Food101Dirs ==
    {MissingDir}
    \cup {[exists |-> TRUE, classes_txt |-> c, images |-> i] :
            c \in {NoClassesTxt} \cup {[exists |-> TRUE, lines |-> l] : l \in ClassesTxtLines},
            i \in UNION {[D -> 0..MaxImages] : D \in SUBSET DirNames}}

Whitespace == {" ", "\n"}

\* line.strip()
RECURSIVE Strip(_)
Strip(line) ==
    IF line = "" THEN ""
    ELSE IF SubSeq(line, 1, 1) \in Whitespace THEN Strip(SubSeq(line, 2, Len(line)))
    ELSE IF SubSeq(line, Len(line), Len(line)) \in Whitespace
         THEN Strip(SubSeq(line, 1, Len(line) - 1))
    ELSE line

\* the orders in which iterdir() may yield the entries of a directory
ListingOrders(D) ==
    {o \in [1..Cardinality(D) -> D] : \A i, j \in 1..Cardinality(D) : i # j => o[i] # o[j]}

\* enumerate counting from 1
ClassIdxOneBased(pos) == pos

\* class_idx of enumerate(class_names) for the entry at (1-based) position pos
ClassIdx(pos) == pos - 1

\* "Load images and labels": the (class directory, label) pairs appended for
\* the entries of class_names from position pos on
RECURSIVE LoadImages(_, _, _)
LoadImages(class_names, images, pos) ==
    IF pos > Len(class_names) THEN <<>>
    ELSE LET class_name == class_names[pos]
             found == IF class_name \in DOMAIN images          \* class_dir.exists()
                      THEN [k \in 1..images[class_name] |->
                               [dir |-> class_name, label |-> ClassIdx(pos)]]
                      ELSE <<>>
         IN  found \o LoadImages(class_names, images, pos + 1)

Splits == <<"train", "val", "test">>

\* the shuffles the seeded train_test_split calls may amount to: sample i
\* lands in Splits[((i + shuffle) % 3) + 1]
Shuffles == 0..2

\* the samples a shuffle puts into one of the three datasets, each sample
\* with its own label
RECURSIVE Part(_, _, _, _)
Part(samples, shuffle, which, i) ==
    IF i > Len(samples) THEN <<>>
    ELSE (IF Splits[((i + shuffle) % 3) + 1] = which THEN <<samples[i]>> ELSE <<>>)
         \o Part(samples, shuffle, which, i + 1)

\* the least number of members per class that a stratified split accepts
MinPerClass == 2

NotPrepared ==
    [result |-> "none", class_names |-> <<>>, samples |-> <<>>, train |-> <<>>,
     val |-> <<>>, test |-> <<>>, num_classes |-> -1]

\* prepare_data(data_dir) over a directory tree, iterdir() yielding the class
\* directories in the given order and the splits shuffling as given
prepare_data(dir, order, shuffle) ==
    IF ~dir.exists THEN [NotPrepared EXCEPT !.result = "FileNotFoundError"]
    ELSE LET class_names ==
                 IF dir.classes_txt.exists
                 THEN [i \in 1..Len(dir.classes_txt.lines) |-> Strip(dir.classes_txt.lines[i])]
                 ELSE order
             samples == LoadImages(class_names, dir.images, 1)
             count(l) == Cardinality({i \in 1..Len(samples) : samples[i].label = l})
         IN  IF \/ samples = <<>>
                \/ \E i \in 1..Len(samples) : count(samples[i].label) < MinPerClass
             THEN [NotPrepared EXCEPT !.result = "ValueError",    \* train_test_split
                                      !.class_names = class_names, !.samples = samples]
             ELSE [result |-> "returned", class_names |-> class_names, samples |-> samples,
                   train |-> Part(samples, shuffle, "train", 1),
                   val |-> Part(samples, shuffle, "val", 1),
                   test |-> Part(samples, shuffle, "test", 1),
                   num_classes |-> Len(class_names)]

InitDataIdle ==
    /\ food101_dir = MissingDir
    /\ prepared = NotPrepared
    /\ prepared_before = <<>>
    /\ runs = 0

(***************************************************************************)
(* CalAiModelServer                                                        *)
(***************************************************************************)
NoModel == [kind |-> "None", num_classes |-> 0]
NoTransform == <<>>
EmptyInfo ==
    [set |-> FALSE, model_name |-> "", num_classes |-> 0, epoch |-> 0,
     accuracy |-> 0, class_names |-> <<>>]

\* the check for None left out
IsNoneUnchecked(model) == FALSE

\* "model_server.model is None"
IsNone(model) == model.kind = "None"

\* transforms.Compose([...]) of load_model, the same in both server modules
ServerTransform == <<"Resize(256)", "CenterCrop(224)", "ToTensor", "Normalize(imagenet)">>

\* CalAiModelServer.__init__
NewServer ==
    [model |-> NoModel, transform |-> NoTransform, model_info |-> EmptyInfo,
     class_names |-> FOOD101_CLASSES]

\* model_server.py, CalAiModelServer.load_model: the instance afterwards and
\* the value returned.  self.model is assigned before load_state_dict runs.
load_model(self, ck) ==
    IF ck.kind = "missing" THEN [self |-> self, ret |-> FALSE]
    ELSE IF ck.kind = "corrupt" THEN [self |-> self, ret |-> FALSE]
    ELSE LET built == [self EXCEPT !.model = [kind |-> "constructed",
                                              num_classes |-> Len(FOOD101_CLASSES)]]
         IN  IF ck.kind # "state_dict"
             THEN [self |-> built, ret |-> FALSE]
             ELSE [self |-> [built EXCEPT
                               !.model.kind = "loaded",
                               !.model_info = [set |-> TRUE,
                                               model_name |-> "efficientnet_b0",
                                               num_classes |-> Len(FOOD101_CLASSES),
                                               epoch |-> EpochFinal,
                                               accuracy |-> AccuracyBestTrained,
                                               class_names |-> self.class_names],
                               !.transform = ServerTransform],
                   ret |-> TRUE]

\* model_server_new.py, CalAiModelServer.load_model
load_model_new(self, ck) ==
    IF ck.kind = "missing" THEN [self |-> self, ret |-> FALSE]
    ELSE IF ck.kind = "corrupt" THEN [self |-> self, ret |-> FALSE]
    ELSE LET has == ck.kind = "trainer"
             info == [set |-> TRUE,
                      model_name |-> IF has THEN ck.model_name ELSE "efficientnet_b0",
                      num_classes |-> IF has THEN ck.num_classes ELSE Len(FOOD101_CLASSES),
                      epoch |-> IF has THEN ck.epoch ELSE 0,
                      accuracy |-> IF has THEN ck.accuracy ELSE 0,
                      class_names |-> IF has THEN ck.class_names ELSE FOOD101_CLASSES]
             read == [self EXCEPT !.model_info = info,
                                  !.class_names = IF has THEN ck.class_names ELSE @]
             built == [read EXCEPT !.model = [kind |-> "constructed",
                                              num_classes |-> info.num_classes]]
         IN  IF FoodClassificationModel("model_server_new", info.num_classes,
                                        info.model_name, FALSE).raised # ""
             THEN [self |-> read, ret |-> FALSE]        \* timm.create_model raises
             ELSE IF ~has
             THEN [self |-> built, ret |-> FALSE]       \* checkpoint['model_state_dict']
             ELSE [self |-> [built EXCEPT !.model.kind = "loaded",
                                          !.transform = ServerTransform],
                   ret |-> TRUE]

(***************************************************************************)
(* Images and the network's outputs                                        *)
(***************************************************************************)
\* decodable images; each gives its own class weights exp(logit)
ValidImages == {"jpeg_a", "jpeg_b"}
\* "empty": zero bytes; "garbage": bytes PIL cannot identify (Image.open raises);
\* "truncated": Image.open reads the header, the pixel data fail to load later
Images == ValidImages \cup {"empty", "garbage", "truncated"}

\* the decoded picture handed to a transform: width and height in pixels, an
\* HWC array of uint8; view is the part of the source picture shown, as the
\* fraction num/den of its width (x) and of its height (y)
Picture(img) ==
    [w |-> IF img = "jpeg_a" THEN 512 ELSE 300,
     h |-> IF img = "jpeg_a" THEN 384 ELSE 400,
     view |-> [x |-> <<1, 1>>, y |-> <<1, 1>>],
     layout |-> "HWC", values |-> "uint8", mean |-> <<>>, std |-> <<>>]

\* mean=[0.485, 0.456, 0.406], std=[0.229, 0.224, 0.225], in thousandths
ImagenetMean == <<485, 456, 406>>
ImagenetStd == <<229, 224, 225>>

\* what one step of a transform pipeline does to a picture
TransformStep(step, t) ==
    CASE step = "Resize(256)" ->            \* the shorter side to 256, aspect ratio kept
            IF t.w <= t.h THEN [t EXCEPT !.w = 256, !.h = (256 * t.h) \div t.w]
                          ELSE [t EXCEPT !.h = 256, !.w = (256 * t.w) \div t.h]
      [] step = "CenterCrop(224)" ->        \* the central 224 x 224 pixels
            [t EXCEPT !.w = 224, !.h = 224,
                      !.view = [x |-> <<224 * t.view.x[1], t.w * t.view.x[2]>>,
                                y |-> <<224 * t.view.y[1], t.h * t.view.y[2]>>]]
      [] step \in {"Resize((224, 224))", "A.Resize(224, 224)"} ->   \* the whole picture
            [t EXCEPT !.w = 224, !.h = 224]
      [] step = "ToTensor" ->               \* HWC uint8 to CHW floats in [0, 1]
            [t EXCEPT !.layout = "CHW",
                      !.values = IF t.values = "uint8" THEN "unit" ELSE "error"]
      [] step = "Normalize(imagenet)" ->    \* (x - mean) / std on a float tensor
            [t EXCEPT !.values = IF t.values = "unit" THEN "normalized" ELSE "error",
                      !.mean = ImagenetMean, !.std = ImagenetStd]
      [] step = "A.Normalize(imagenet)" ->  \* (x - mean * 255) / (std * 255) on uint8
            [t EXCEPT !.values = IF t.values = "uint8" THEN "normalized" ELSE "error",
                      !.mean = ImagenetMean, !.std = ImagenetStd]
      [] step = "ToTensorV2" ->             \* HWC to CHW, the values as they are
            [t EXCEPT !.layout = "CHW"]

\* transforms.Compose / A.Compose: the steps applied in order
RECURSIVE Compose(_, _)
Compose(steps, t) ==
    IF steps = <<>> THEN t ELSE Compose(Tail(steps), TransformStep(Head(steps), t))

\* val_transform of FoodTrainer.prepare_data
val_transform == <<"A.Resize(224, 224)", "A.Normalize(imagenet)", "ToTensorV2">>

\* two tensors of the same shape, layout, value range and normalisation
\* constants, showing the same part of the source picture
SameTensor(a, b) ==
    /\ a.w = b.w /\ a.h = b.h
    /\ a.layout = b.layout
    /\ a.values = b.values /\ a.mean = b.mean /\ a.std = b.std
    /\ a.view.x[1] * b.view.x[2] = b.view.x[1] * a.view.x[2]
    /\ a.view.y[1] * b.view.y[2] = b.view.y[1] * a.view.y[2]

\* exp(logit) of class index i (0-based) for an image
Weight(img, i) ==
    IF img = "jpeg_a" THEN ((37 * i + 11) % WeightMod) + 1
                      ELSE ((i * i + 2) % WeightMod) + 1

\* output sizes of the models a server can hold
OutputSizes == {Len(FOOD101_CLASSES)} \cup (2..MaxCkptClasses)

\* the sum of the weights of the class indices lo..hi
RECURSIVE SumWeights(_, _, _)
SumWeights(img, lo, hi) ==
    IF lo > hi THEN 0
    ELSE IF lo = hi THEN Weight(img, lo)
    ELSE SumWeights(img, lo, (lo + hi) \div 2) + SumWeights(img, ((lo + hi) \div 2) + 1, hi)

\* the denominator of softmax over n classes, per image
TotalWeights == [img \in ValidImages |-> [n \in OutputSizes |-> SumWeights(img, 0, n - 1)]]
TotalWeight(img, n) == TotalWeights[img][n]

\* round(confidence, 3) of softmax: w / total in thousandths, half rounded up
Round3(w, total) == (2000 * w + total) \div (2 * total)

\* the nutrition head's four outputs, in hundredths
NutritionHead(img) ==
    IF img = "jpeg_a" THEN <<23456, 1234, -567, 5>> ELSE <<-1, 0, 995, -12345>>

\* round(x, 1) of a value in hundredths, in tenths (half to even)
Round1(h) ==
    LET q == h \div 10
        r == h % 10
    IN  IF r < 5 THEN q
        ELSE IF r > 5 THEN q + 1
        ELSE IF q % 2 = 0 THEN q ELSE q + 1

\* torch.topk leaves the order of equal values open: lowest or highest index first
TieBreaks == {"low", "high"}

Better(img, tb, i, j) ==
    \/ Weight(img, i) > Weight(img, j)
    \/ Weight(img, i) = Weight(img, j) /\ (IF tb = "low" THEN i < j ELSE i > j)

\* the number of classes that come before class index i in descending order
Rank(img, n, tb, i) == Cardinality({j \in 0..(n - 1) : Better(img, tb, j, i)})

Ranks ==
    [img \in ValidImages |-> [n \in OutputSizes |-> [tb \in TieBreaks |->
        [i \in 0..(n - 1) |-> Rank(img, n, tb, i)]]]]

\* the class indices of an image's n outputs, largest weight first
SortedClasses ==
    [img \in ValidImages |-> [n \in OutputSizes |-> [tb \in TieBreaks |->
        [r \in 1..n |-> CHOOSE i \in 0..(n - 1) : Ranks[img][n][tb][i] = r - 1]]]]

\* the k largest returned smallest first
torch_topk_ascending(img, n, k, tb) ==
    [r \in 1..k |-> SortedClasses[img][n][tb][k - r + 1]]

\* torch.topk(probabilities, k): the indices of the k largest, largest first
\* (0 <= k <= n; the caller handles the RuntimeError for any other k)
torch_topk(img, n, k, tb) == SubSeq(SortedClasses[img][n][tb], 1, k)

(***************************************************************************)
(* CalAiModelServer._estimate_nutrition (model_server.py)                  *)
(***************************************************************************)
Nutrition(c, p, cb, f) == [calories |-> c, protein |-> p, carbs |-> cb, fat |-> f]

\* no "estimated_nutrition" key in the prediction
NoNutrition == [calories |-> -1, protein |-> -1, carbs |-> -1, fat |-> -1]

\* nutrition_defaults, in the insertion order the for loop walks
nutrition_defaults == <<
    <<"cake",      Nutrition(350, 5, 50, 15)>>,
    <<"pie",       Nutrition(320, 4, 45, 14)>>,
    <<"chocolate", Nutrition(400, 6, 45, 20)>>,
    <<"ice_cream", Nutrition(250, 4, 30, 12)>>,
    <<"donut",     Nutrition(300, 4, 35, 16)>>,
    <<"pizza",     Nutrition(280, 12, 30, 12)>>,
    <<"hamburger", Nutrition(350, 20, 25, 18)>>,
    <<"steak",     Nutrition(400, 30, 0, 28)>>,
    <<"chicken",   Nutrition(250, 25, 0, 12)>>,
    <<"fish",      Nutrition(200, 22, 0, 8)>>,
    <<"default",   Nutrition(250, 10, 25, 10)>> >>

UpperCase == "ABCDEFGHIJKLMNOPQRSTUVWXYZ"
LowerCase == "abcdefghijklmnopqrstuvwxyz"

LowerChar(c) ==
    IF \E i \in 1..Len(UpperCase) : SubSeq(UpperCase, i, i) = c
    THEN LET i == CHOOSE i \in 1..Len(UpperCase) : SubSeq(UpperCase, i, i) = c
         IN  SubSeq(LowerCase, i, i)
    ELSE c

\* str.lower()
RECURSIVE Lower(_)
Lower(s) == IF Len(s) = 0 THEN "" ELSE LowerChar(SubSeq(s, 1, 1)) \o Lower(SubSeq(s, 2, Len(s)))

\* category in food_name
Contains(sub, s) ==
    \E i \in 1..(Len(s) - Len(sub) + 1) : SubSeq(s, i, i + Len(sub) - 1) = sub

RECURSIVE FirstMatch(_, _)
FirstMatch(name, i) ==
    IF i > Len(nutrition_defaults) THEN nutrition_defaults[Len(nutrition_defaults)][2]
    ELSE IF Contains(nutrition_defaults[i][1], name) THEN nutrition_defaults[i][2]
    ELSE FirstMatch(name, i + 1)

\* the lookup answering every name with the "default" entry
_estimate_nutrition_default(food_name) == nutrition_defaults[Len(nutrition_defaults)][2]

\* CalAiModelServer._estimate_nutrition
_estimate_nutrition(food_name) == FirstMatch(Lower(food_name), 1)

\* _estimate_nutrition of every class name of FOOD101_CLASSES
\* the arguments _estimate_nutrition is called with: the class names of the
\* catalogue, and names in other spellings or without any keyword
FoodNames ==
    {FOOD101_CLASSES[i] : i \in 1..Len(FOOD101_CLASSES)}
    \cup {"Chocolate_Cake", "CHICKEN WINGS", "tofu", ""}

InitNutritionIdle ==
    /\ lookup_name = ""
    /\ estimate = NoNutrition

EstimatedNutrition ==
    [name \in {FOOD101_CLASSES[x] : x \in 1..Len(FOOD101_CLASSES)} |-> _estimate_nutrition(name)]

(***************************************************************************)
(* CalAiModelServer.predict                                                *)
(***************************************************************************)
PredictFailure ==
    [raised |-> FALSE, success |-> FALSE, predictions |-> <<>>, model_info |-> EmptyInfo]
PredictRaised ==
    [raised |-> TRUE, success |-> FALSE, predictions |-> <<>>, model_info |-> EmptyInfo]

\* the "Format results" loop: for i in range(top_k), break at the end of
\* top_indices, entries whose index lies outside class_names are dropped
RECURSIVE FormatResults(_, _, _, _, _, _, _)
FormatResults(self, img, top, top_k, i, nutrition, acc) ==
    IF i >= top_k THEN acc
    ELSE IF i >= Len(top) THEN acc
    ELSE LET class_idx == top[i + 1]
             confidence == Round3(Weight(img, class_idx),
                                  TotalWeight(img, self.model.num_classes))
         IN  IF class_idx < Len(self.class_names)
             THEN FormatResults(self, img, top, top_k, i + 1, nutrition,
                     Append(acc, [class_index |-> class_idx,
                                  confidence |-> confidence,
                                  raw_class |-> self.class_names[class_idx + 1],
                                  estimated_nutrition |->
                                      nutrition[self.class_names[class_idx + 1]]]))
             ELSE FormatResults(self, img, top, top_k, i + 1, nutrition, acc)

\* the try block of predict, shared by both server modules; nutrition maps a
\* class name to the prediction's "estimated_nutrition"
PredictBody(self, img, top_k, tb, nutrition) ==
    IF img \notin ValidImages \/ self.transform = NoTransform
    THEN PredictFailure                                     \* preprocess_image raises
    ELSE LET k == Min(top_k, Len(self.class_names))
         IN  IF k < 0 \/ k > self.model.num_classes
             THEN PredictFailure                            \* torch.topk raises
             ELSE [raised |-> FALSE, success |-> TRUE,
                   predictions |-> FormatResults(self, img,
                                      torch_topk(img, self.model.num_classes, k, tb),
                                      top_k, 0, nutrition, <<>>),
                   model_info |-> self.model_info]

\* model_server.py: nutrition from the keyword table
predict(self, img, return_nutrition, top_k, tb) ==
    IF IsNone(self.model) THEN PredictRaised
    ELSE PredictBody(self, img, top_k, tb,
            [name \in {self.class_names[x] : x \in 1..Len(self.class_names)} |->
                IF return_nutrition THEN EstimatedNutrition[name] ELSE NoNutrition])

\* the outputs of the head put into the prediction as they are
estimated_nutrition_unclamped(module, out) ==
    Nutrition(out[1], out[2], out[3], out[4])

\* the "estimated_nutrition" built from the four outputs of the nutrition
\* head: max(0, round(float(x), 1)) in model_server_new.py, in tenths, and
\* max(0, float(x)) in model_server_old.py, in hundredths
estimated_nutrition(module, out) ==
    IF module = "model_server_new"
    THEN Nutrition(Max(0, Round1(out[1])), Max(0, Round1(out[2])),
                   Max(0, Round1(out[3])), Max(0, Round1(out[4])))
    ELSE Nutrition(Max(0, out[1]), Max(0, out[2]), Max(0, out[3]), Max(0, out[4]))

InitHeadIdle ==
    /\ head_module = "none"
    /\ nutrition_outputs = <<0, 0, 0, 0>>
    /\ head_nutrition = NoNutrition

\* model_server_new.py: nutrition from the model's nutrition head, clamped at 0
predict_new(self, img, return_nutrition, top_k, tb) ==
    IF IsNone(self.model) THEN PredictRaised
    ELSE PredictBody(self, img, top_k, tb,
            [name \in {self.class_names[x] : x \in 1..Len(self.class_names)} |->
                IF return_nutrition
                THEN estimated_nutrition("model_server_new", NutritionHead(img))
                ELSE NoNutrition])

(***************************************************************************)
(* Requests and responses                                                  *)
(***************************************************************************)
TopKInputs ==
    (-1..MaxTopK) \cup {TopKCeiling, TopKCeiling + 1}
    \cup {Len(FOOD101_CLASSES), Len(FOOD101_CLASSES) + 1}

\* the "image" entry of a /predict/base64 body: absent, the empty string, a
\* string that is not base64, the base64 of an image, or a data URI
\* ("data:image/jpeg;base64,<base64>") of one
Base64Fields ==
    {[form |-> "absent", img |-> "empty"], [form |-> "empty_string", img |-> "empty"],
     [form |-> "not_base64", img |-> "garbage"], [form |-> "data_uri", img |-> "jpeg_a"]}
    \cup {[form |-> "base64", img |-> i] : i \in {"jpeg_b", "garbage", "truncated"}}

NoField == [form |-> "none", img |-> "empty"]

NoRequest ==
    [endpoint |-> "none", field |-> NoField, image |-> "empty", nutrition |-> FALSE, top_k |-> 0]
Request(ep, field, img, nutrition, top_k) ==
    [endpoint |-> ep, field |-> field, image |-> img, nutrition |-> nutrition, top_k |-> top_k]

NoBody ==
    [success |-> FALSE, model_loaded |-> FALSE, timestamp |-> 0, predictions |-> <<>>,
     model_info |-> EmptyInfo, classes_count |-> 0, detail |-> ""]
NoResponse == [status |-> 0, body |-> NoBody]

\* raise HTTPException(status_code=..., detail=...)
HTTPException(status_code, detail) ==
    [status |-> status_code, body |-> [NoBody EXCEPT !.detail = detail]]

\* the dict predict returned, sent as the 200 response
PredictResponse(result) ==
    [status |-> 200,
     body |-> [NoBody EXCEPT !.success = result.success,
                             !.predictions = result.predictions,
                             !.model_info = result.model_info]]

\* the handler passing top_k on as it came
ClampTopKMissing(top_k) == top_k

\* top_k=min(top_k, 10)
ClampTopK(top_k) == Min(top_k, TopKCeiling)

\* model_server.predict of the module that runs
ServerPredict(self, img, nutrition, top_k, tb) ==
    IF variant = "model_server" THEN predict(self, img, nutrition, top_k, tb)
                                ELSE predict_new(self, img, nutrition, top_k, tb)

\* body of GET /health
HealthBody(self, now) ==
    [NoBody EXCEPT !.success = TRUE, !.model_loaded = ~IsNone(self.model),
                   !.timestamp = now]

\* /model/info carrying the clock as /health does
InfoBodyStamped(self) ==
    [NoBody EXCEPT !.success = TRUE, !.model_info = self.model_info,
                   !.classes_count = Len(self.class_names), !.timestamp = clock]

\* body of GET /model/info
InfoBody(self) ==
    [NoBody EXCEPT !.success = TRUE, !.model_info = self.model_info,
                   !.classes_count = Len(self.class_names)]

\* the try/except of predict_food: Image.open raises on bytes it cannot
\* identify; whatever predict returns is sent as it is
PredictFoodResponse(self, img, nutrition, top_k, tb) ==
    IF img \in {"empty", "garbage"}
    THEN HTTPException(500, "Prediction failed")
    ELSE LET result == ServerPredict(self, img, nutrition, ClampTopK(top_k), tb)
         IN  IF result.raised THEN HTTPException(500, "Prediction failed")
                              ELSE PredictResponse(result)

\* the try/except of predict_food_base64
PredictBase64Response(self, field, nutrition, top_k, tb) ==
    IF field.form \in {"absent", "empty_string"}
    THEN HTTPException(500, "Prediction failed")         \* ValueError("No image data provided")
    ELSE IF field.form = "not_base64"
    THEN HTTPException(500, "Prediction failed")         \* b64decode or Image.open raises
    ELSE PredictFoodResponse(self, field.img, nutrition, top_k, tb)

(***************************************************************************)
(* The inference server                                                    *)
(***************************************************************************)
(***************************************************************************)
(* DatasetDownloader (scripts/download_datasets.py)                        *)
(***************************************************************************)
\* self.datasets, in insertion order
datasets == <<
    [name |-> "food101",        source |-> "kaggle",      size |-> "5GB",   priority |-> 1],
    [name |-> "uecfood256",     source |-> "huggingface", size |-> "2GB",   priority |-> 2],
    [name |-> "nutrition5k",    source |-> "direct",      size |-> "1.5GB", priority |-> 3],
    [name |-> "openfoodfacts",  source |-> "api",         size |-> "3GB",   priority |-> 4],
    [name |-> "usda_nutrition", source |-> "api",         size |-> "500MB", priority |-> 5] >>

DatasetNames == {datasets[i].name : i \in 1..Len(datasets)}

\* self.datasets[name]
DatasetConfig(name) == datasets[CHOOSE i \in 1..Len(datasets) : datasets[i].name = name]

\* sorted(self.datasets.items(), key=lambda x: x[1]['priority']): the sort is
\* stable, equal priorities keep the insertion order
sorted_datasets ==
    LET before(a, b) ==
            \/ datasets[a].priority < datasets[b].priority
            \/ datasets[a].priority = datasets[b].priority /\ a < b
        rank(a) == Cardinality({b \in 1..Len(datasets) : before(b, a)})
    IN  [p \in 1..Len(datasets) |->
            datasets[CHOOSE a \in 1..Len(datasets) : rank(a) = p - 1]]

\* sizes are kept in units of 1/1024 GB, in which every float of the
\* program is a whole number
UnitsPerGB == 1024

Digits == "0123456789"

DigitValue(c) == (CHOOSE i \in 1..Len(Digits) : SubSeq(Digits, i, i) = c) - 1

\* str.replace(sub, '')
RECURSIVE Remove(_, _)
Remove(sub, s) ==
    IF Len(s) < Len(sub) THEN s
    ELSE IF SubSeq(s, 1, Len(sub)) = sub THEN Remove(sub, SubSeq(s, Len(sub) + 1, Len(s)))
    ELSE SubSeq(s, 1, 1) \o Remove(sub, SubSeq(s, 2, Len(s)))

\* int() of a string of digits
RECURSIVE Number(_)
Number(s) ==
    IF Len(s) = 0 THEN 0
    ELSE 10 * Number(SubSeq(s, 1, Len(s) - 1)) + DigitValue(SubSeq(s, Len(s), Len(s)))

\* float() of a decimal numeral with at most three decimals, in thousandths
FloatThousandths(s) ==
    LET dots == {i \in 1..Len(s) : SubSeq(s, i, i) = "."}
        dot == IF dots = {} THEN Len(s) + 1 ELSE CHOOSE i \in dots : \A j \in dots : i <= j
        frac == SubSeq(s, dot + 1, Len(s))
        scale == CASE Len(frac) = 0 -> 1000 [] Len(frac) = 1 -> 100
                   [] Len(frac) = 2 -> 10 [] OTHER -> 1
    IN  1000 * Number(SubSeq(s, 1, dot - 1)) + scale * Number(frac)

\* DatasetDownloader._parse_size_gb
_parse_size_gb(size_str) ==
    LET s == Lower(size_str)
    IN  IF Contains("gb", s)
        THEN (UnitsPerGB * FloatThousandths(Strip(Remove("gb", s)))) \div 1000
        ELSE IF Contains("mb", s)
        THEN FloatThousandths(Strip(Remove("mb", s))) \div 1000
        ELSE UnitsPerGB                                    \* Default 1GB

\* a scan that never skips a dataset for its size
ExceedsLimitNever(total, size_gb, limit) == FALSE

\* if total_size + size_gb > max_size_gb
ExceedsLimit(total, size_gb, limit) == total + size_gb > limit

\* the directory of a dataset under data_dir: absent, empty, holding what a
\* failed or half-failed download left, or holding the dataset
DirStates == {"absent", "empty", "partial", "complete"}

\* any(dataset_dir.iterdir())
HasFiles(dir) == dir \in {"partial", "complete"}

\* how the download of a source can end: what the _download_ method returns
\* and what it leaves in the directory. Every method catches its exceptions
\* and returns False, after it may have written files; _download_huggingface
\* returns True whatever files failed
Outcomes(source) ==
    IF source = "huggingface"
    THEN {[raised |-> FALSE, ret |-> TRUE, dir |-> "complete"],
          [raised |-> FALSE, ret |-> TRUE, dir |-> "partial"],
          [raised |-> FALSE, ret |-> TRUE, dir |-> "empty"],
          [raised |-> FALSE, ret |-> FALSE, dir |-> "empty"]}
    ELSE {[raised |-> FALSE, ret |-> TRUE, dir |-> "complete"],
          [raised |-> FALSE, ret |-> FALSE, dir |-> "empty"],
          [raised |-> FALSE, ret |-> FALSE, dir |-> "partial"]}

\* dataset_dir.mkdir(exist_ok=True) raises: it stands outside the try statement
MkdirRaises == [raised |-> TRUE, ret |-> FALSE, dir |-> "absent"]

\* DatasetDownloader.download_dataset(name) over the directories dirs, the
\* download ending as outcome if it is attempted: what is returned, whether
\* the download was attempted, the directories afterwards
download_dataset(name, dirs, outcome) ==
    IF name \notin DatasetNames
    THEN [raised |-> FALSE, ret |-> FALSE, attempted |-> FALSE, dirs |-> dirs]
    ELSE IF HasFiles(dirs[name])                   \* "already exists, skipping download"
    THEN [raised |-> FALSE, ret |-> TRUE, attempted |-> FALSE, dirs |-> dirs]
    ELSE IF outcome.raised
    THEN [raised |-> TRUE, ret |-> FALSE, attempted |-> FALSE, dirs |-> dirs]
    ELSE [raised |-> FALSE, ret |-> outcome.ret, attempted |-> TRUE,
          dirs |-> [dirs EXCEPT ![name] = outcome.dir]]

\* the outcomes a call of download_dataset(name) can meet
CallOutcomes(name) ==
    IF name \in DatasetNames
    THEN Outcomes(DatasetConfig(name).source) \cup {MkdirRaises}
    ELSE {MkdirRaises}

NoCall == [name |-> "", raised |-> FALSE, ret |-> FALSE, attempted |-> FALSE,
           earlier |-> {}]

NoMetadata == [exists |-> FALSE, datasets |-> <<>>]

\* --max-size in units of 1/1024 GB: nothing, 2 GB, 6 GB, the default 10 GB
MaxSizes == {0, 2 * UnitsPerGB, 6 * UnitsPerGB, 10 * UnitsPerGB}

\* --dataset: names of self.datasets and a name it does not have
SingleNames == {"uecfood256", "nutrition5k", "imagenet"}

InitDownloadIdle ==
    /\ dl_pc = "idle"
    /\ data_dirs = [n \in DatasetNames |-> "absent"]
    /\ max_size_gb = 0
    /\ scan_pos = 0
    /\ total_size = 0
    /\ downloaded = <<>>
    /\ scan_log = <<>>
    /\ metadata_json = NoMetadata
    /\ results = [n \in DatasetNames \cup SingleNames |-> {}]
    /\ last_call = NoCall
    /\ all_ran = FALSE
    /\ single_calls = 0

InitToolsIdle ==
    /\ InitNutritionIdle
    /\ InitCtorIdle
    /\ InitExportIdle
    /\ InitDataIdle
    /\ InitHeadIdle
    /\ InitDownloadIdle

InitTrainIdle ==
    /\ pc = "idle"
    /\ epoch = 0
    /\ best_val_acc = 0
    /\ val_acc = 0
    /\ best_model_pth =
          [exists |-> FALSE, complete |-> FALSE, epoch |-> 0, accuracy |-> 0, params |-> 0]
    /\ epoch_log = <<>>
    /\ epochs = 0
    /\ params = 0
    /\ raised = ""
    /\ main_log = <<>>
    /\ export_onnx = FALSE
    /\ trainer = [model |-> "None", loaders |-> FALSE]
    /\ batches = 0
    /\ batch = 0
    /\ batch_ops = <<>>
    /\ scheduler = [T_max |-> 0, last_epoch |-> 0]
    /\ validate_calls = 0
    /\ test_results = [tested |-> FALSE, params |-> 0]

Init ==
    /\ variant \in {"model_server", "model_server_new"}
    /\ MODEL_PATH \in Checkpoints
    /\ model_server = NewServer
    /\ started = FALSE
    /\ load_result = "none"
    /\ topk_ties \in TieBreaks
    /\ clock = 0
    /\ request = NoRequest
    /\ response = NoResponse
    /\ previous = NoResponse
    /\ InitTrainIdle
    /\ InitToolsIdle

\* @app.on_event("startup")
startup_event ==
    /\ ~started
    /\ LET r == IF variant = "model_server" THEN load_model(model_server, MODEL_PATH)
                                            ELSE load_model_new(model_server, MODEL_PATH)
       IN  /\ model_server' = r.self
           /\ load_result' = IF r.ret THEN "true" ELSE "false"
    /\ started' = TRUE
    /\ request' = NoRequest
    /\ response' = NoResponse
    /\ previous' = NoResponse
    /\ UNCHANGED <<variant, MODEL_PATH, topk_ties, clock>>
    /\ UNCHANGED trainVars
    /\ UNCHANGED toolVars

\* @app.get("/health")
health_check ==
    /\ started
    /\ request' = Request("health", NoField, "empty", FALSE, 0)
    /\ response' = [status |-> 200, body |-> HealthBody(model_server, clock)]
    /\ previous' = IF request.endpoint = "health" THEN response ELSE NoResponse
    /\ UNCHANGED <<variant, MODEL_PATH, model_server, started, load_result, topk_ties, clock>>
    /\ UNCHANGED trainVars
    /\ UNCHANGED toolVars

\* @app.get("/model/info")
get_model_info ==
    /\ started
    /\ request' = Request("info", NoField, "empty", FALSE, 0)
    /\ response' = IF IsNone(model_server.model)
                   THEN HTTPException(503, "Model not loaded")
                   ELSE [status |-> 200, body |-> InfoBody(model_server)]
    /\ previous' = IF request.endpoint = "info" THEN response ELSE NoResponse
    /\ UNCHANGED <<variant, MODEL_PATH, model_server, started, load_result, topk_ties, clock>>
    /\ UNCHANGED trainVars
    /\ UNCHANGED toolVars

\* predict_food dropping the model when a request fails
predict_food_unloads ==
    \E img \in Images, nutrition \in BOOLEAN, top_k \in TopKInputs :
        /\ started
        /\ request' = Request("predict", NoField, img, nutrition, top_k)
        /\ response' = IF IsNone(model_server.model)
                       THEN HTTPException(503, "Model not loaded")
                       ELSE PredictFoodResponse(model_server, img, nutrition, top_k, topk_ties)
        /\ previous' = NoResponse
        /\ model_server' = IF response'.status = 500
                            THEN [model_server EXCEPT !.model = NoModel]
                            ELSE model_server
        /\ UNCHANGED <<variant, MODEL_PATH, started, load_result, topk_ties, clock>>
        /\ UNCHANGED trainVars
        /\ UNCHANGED toolVars

\* @app.post("/predict")
predict_food ==
    \E img \in Images, nutrition \in BOOLEAN, top_k \in TopKInputs :
        /\ started
        /\ request' = Request("predict", NoField, img, nutrition, top_k)
        /\ response' = IF IsNone(model_server.model)
                       THEN HTTPException(503, "Model not loaded")
                       ELSE PredictFoodResponse(model_server, img, nutrition, top_k, topk_ties)
        /\ previous' = NoResponse
        /\ UNCHANGED <<variant, MODEL_PATH, model_server, started, load_result, topk_ties, clock>>
        /\ UNCHANGED trainVars
        /\ UNCHANGED toolVars

\* @app.post("/predict/base64")
predict_food_base64 ==
    \E field \in Base64Fields, nutrition \in BOOLEAN, top_k \in TopKInputs :
        /\ started
        /\ field.form \in {"absent", "empty_string", "not_base64"}
              => ~nutrition /\ top_k = DefaultTopK
        /\ request' = Request("base64", field, field.img, nutrition, top_k)
        /\ response' = IF IsNone(model_server.model)
                       THEN HTTPException(503, "Model not loaded")
                       ELSE PredictBase64Response(model_server, field, nutrition, top_k, topk_ties)
        /\ previous' = NoResponse
        /\ UNCHANGED <<variant, MODEL_PATH, model_server, started, load_result, topk_ties, clock>>
        /\ UNCHANGED trainVars
        /\ UNCHANGED toolVars

\* time passes on the event loop's clock
Tick ==
    /\ clock < MaxClock
    /\ clock' = clock + 1
    /\ UNCHANGED <<variant, MODEL_PATH, model_server, started, load_result, topk_ties,
                   request, response, previous>>
    /\ UNCHANGED trainVars
    /\ UNCHANGED toolVars

Next ==
    \/ startup_event
    \/ health_check
    \/ get_model_info
    \/ predict_food
    \/ predict_food_base64
    \/ Tick

Spec == Init /\ [][Next]_vars

(***************************************************************************)
(* main() and FoodTrainer.train (train.py)                                 *)
(***************************************************************************)
NoFile == [exists |-> FALSE, complete |-> FALSE, epoch |-> 0, accuracy |-> 0, params |-> 0]

\* models/best_model.pth once torch.save has opened it for writing and before
\* it has written all of the checkpoint: what was there before is gone
PartialFile == [exists |-> TRUE, complete |-> FALSE, epoch |-> 0, accuracy |-> 0, params |-> 0]

\* save_model writing the number of the epoch (epoch + 1, as the log lines
\* print it) in place of the loop index
save_model_one_based(ep, accuracy, state_dict) ==
    [exists |-> TRUE, complete |-> TRUE, epoch |-> ep + 1, accuracy |-> accuracy,
     params |-> state_dict]

\* FoodTrainer.save_model('best_model.pth', epoch, accuracy): the file after
\* torch.save has written the whole checkpoint dict
save_model(ep, accuracy, state_dict) ==
    [exists |-> TRUE, complete |-> TRUE, epoch |-> ep, accuracy |-> accuracy,
     params |-> state_dict]

\* the comparison with >= in place of >: a tie saves again
ShouldSaveOnTie(acc, best) == acc >= best

\* if val_acc > best_val_acc
ShouldSave(acc, best) == acc > best

\* the steps of train() that lie inside an epoch
EpochSteps == {"epoch", "zero_grad", "forward", "loss", "backward", "optimizer_step",
               "validate", "scheduler", "save_best", "torch_save"}

\* FoodTrainer.__init__: self.model = None and the three loaders None
NewTrainer == [model |-> "None", loaders |-> FALSE]

NoTestResults == [tested |-> FALSE, params |-> 0]

\* a scheduler built with the default number of epochs of the parser
CosineAnnealingLR_default(T_max) == [T_max |-> 50, last_epoch |-> 0]

\* optim.lr_scheduler.CosineAnnealingLR(optimizer, T_max=...)
CosineAnnealingLR(T_max) == [T_max |-> T_max, last_epoch |-> 0]

\* for epoch in range(self.config['epochs']): ep is one of the loop's values
InRange(ep, n) == ep < n

\* an epoch that leaves the mode of the model as the last validate() set it
model_train_missing(mode) == mode

\* self.model.train()
model_train(mode) == "train"

\* test() loading models/best_model.pth into self.model before it evaluates
test_loads_checkpoint(state_dict, file) ==
    [tested |-> TRUE, params |-> IF file.exists THEN file.params ELSE state_dict]

\* FoodTrainer.test(): the parameters the reported metrics were measured on
test(state_dict, file) == [tested |-> TRUE, params |-> state_dict]

\* main() exporting whether or not --export-onnx was given
AfterResultsAlways(flag) == "export"

\* main(): if args.export_onnx: ... after test_results.json was written
AfterResults(flag) == IF flag THEN "export" ELSE "exit"

\* config['model_name'] of a run: the default of the parser and a name the
\* class does not know
BuildNames == {"efficientnet_b0", "vgg16"}

InitTrain ==
    /\ variant = "model_server"
    /\ MODEL_PATH = NoCheckpoint("missing")
    /\ model_server = NewServer
    /\ started = FALSE
    /\ load_result = "none"
    /\ topk_ties = "low"
    /\ clock = 0
    /\ request = NoRequest
    /\ response = NoResponse
    /\ previous = NoResponse
    /\ pc = "main"
    /\ epochs \in 0..MaxEpochs
    /\ epoch = 0
    /\ best_val_acc = 0
    /\ val_acc = 0
    /\ best_model_pth \in {NoFile, save_model(0, MaxAcc, -1)}
    /\ epoch_log = <<>>
    /\ params = 0
    /\ raised = ""
    /\ main_log = <<>>
    /\ export_onnx \in BOOLEAN
    /\ trainer = NewTrainer
    /\ batches = 0
    /\ batch = 0
    /\ batch_ops = <<>>
    /\ scheduler = CosineAnnealingLR(0)
    /\ validate_calls = 0
    /\ test_results = NoTestResults
    /\ InitToolsIdle

\* main(): trainer.prepare_data(), which raises when the data directory is
\* missing or a class has too few images, and else sets the three loaders
MainPrepareData ==
    /\ pc = "main"
    /\ main_log' = Append(main_log, "prepare_data")
    /\ \/ /\ raised' = "prepare_data"
          /\ pc' = "aborted"
          /\ UNCHANGED <<trainer, batches>>
       \/ /\ \E n \in 1..MaxBatches : batches' = n
          /\ trainer' = [trainer EXCEPT !.loaders = TRUE]
          /\ pc' = "build_model"
          /\ UNCHANGED raised
    /\ UNCHANGED <<epoch, best_val_acc, val_acc, best_model_pth, epoch_log, epochs, params,
                   export_onnx, batch, batch_ops, scheduler, validate_calls, test_results>>
    /\ UNCHANGED serverVars
    /\ UNCHANGED toolVars

\* main(): trainer.build_model(); a module built by nn.Module is in training mode
MainBuildModel ==
    /\ pc = "build_model"
    /\ main_log' = Append(main_log, "build_model")
    /\ \E name \in BuildNames :
          IF FoodClassificationModel("train", Len(FOOD101_CLASSES), name, TRUE).raised = ""
          THEN /\ trainer' = [trainer EXCEPT !.model = "train"]
               /\ pc' = "train"
               /\ UNCHANGED raised
          ELSE /\ raised' = "build_model"
               /\ pc' = "aborted"
               /\ UNCHANGED trainer
    /\ UNCHANGED <<epoch, best_val_acc, val_acc, best_model_pth, epoch_log, epochs, params,
                   export_onnx, batches, batch, batch_ops, scheduler, validate_calls,
                   test_results>>
    /\ UNCHANGED serverVars
    /\ UNCHANGED toolVars

\* main(): trainer.train(), up to the epoch loop: optimizer, scheduler,
\* criterion, best_val_acc = 0.0
TrainBegin ==
    /\ pc = "train"
    /\ main_log' = Append(main_log, "train")
    /\ scheduler' = CosineAnnealingLR(epochs)
    /\ best_val_acc' = 0
    /\ epoch' = 0
    /\ pc' = IF InRange(0, epochs) THEN "epoch" ELSE "done"
    /\ UNCHANGED <<val_acc, best_model_pth, epoch_log, epochs, params, raised, export_onnx,
                   trainer, batches, batch, batch_ops, validate_calls, test_results>>
    /\ UNCHANGED serverVars
    /\ UNCHANGED toolVars

\* the head of an epoch: self.model.train() and the counters of the epoch
EpochBegin ==
    /\ pc = "epoch"
    /\ trainer' = [trainer EXCEPT !.model = model_train(trainer.model)]
    /\ batch' = 0
    /\ batch_ops' = <<>>
    /\ pc' = "zero_grad"
    /\ UNCHANGED <<epoch, best_val_acc, val_acc, best_model_pth, epoch_log, epochs, params,
                   raised, main_log, export_onnx, batches, scheduler, validate_calls,
                   test_results>>
    /\ UNCHANGED serverVars
    /\ UNCHANGED toolVars

\* the next batch of train_loader: optimizer.zero_grad()
ZeroGrad ==
    /\ pc = "zero_grad"
    /\ batch_ops' = <<"zero_grad">>
    /\ pc' = "forward"
    /\ UNCHANGED <<epoch, best_val_acc, val_acc, best_model_pth, epoch_log, epochs, params,
                   raised, main_log, export_onnx, trainer, batches, batch, scheduler,
                   validate_calls, test_results>>
    /\ UNCHANGED serverVars
    /\ UNCHANGED toolVars

\* outputs = self.model(images)
Forward ==
    /\ pc = "forward"
    /\ batch_ops' = Append(batch_ops, "forward")
    /\ pc' = "loss"
    /\ UNCHANGED <<epoch, best_val_acc, val_acc, best_model_pth, epoch_log, epochs, params,
                   raised, main_log, export_onnx, trainer, batches, batch, scheduler,
                   validate_calls, test_results>>
    /\ UNCHANGED serverVars
    /\ UNCHANGED toolVars

\* loss = criterion(outputs, labels)
Loss ==
    /\ pc = "loss"
    /\ batch_ops' = Append(batch_ops, "loss")
    /\ pc' = "backward"
    /\ UNCHANGED <<epoch, best_val_acc, val_acc, best_model_pth, epoch_log, epochs, params,
                   raised, main_log, export_onnx, trainer, batches, batch, scheduler,
                   validate_calls, test_results>>
    /\ UNCHANGED serverVars
    /\ UNCHANGED toolVars

\* loss.backward()
Backward ==
    /\ pc = "backward"
    /\ batch_ops' = Append(batch_ops, "backward")
    /\ pc' = "optimizer_step"
    /\ UNCHANGED <<epoch, best_val_acc, val_acc, best_model_pth, epoch_log, epochs, params,
                   raised, main_log, export_onnx, trainer, batches, batch, scheduler,
                   validate_calls, test_results>>
    /\ UNCHANGED serverVars
    /\ UNCHANGED toolVars

\* optimizer.step() updates the parameters; the statistics and the progress
\* bar follow, then the next batch or the end of the batch loop
OptimizerStep ==
    /\ pc = "optimizer_step"
    /\ params' = params + 1
    /\ batch_ops' = Append(batch_ops, "step")
    /\ batch' = batch + 1
    /\ pc' = IF batch + 1 < batches THEN "zero_grad" ELSE "validate"
    /\ UNCHANGED <<epoch, best_val_acc, val_acc, best_model_pth, epoch_log, epochs, raised,
                   main_log, export_onnx, trainer, batches, scheduler, validate_calls,
                   test_results>>
    /\ UNCHANGED serverVars
    /\ UNCHANGED toolVars

\* val_loss, val_acc = self.validate(): self.model.eval(), then the
\* validation set under torch.no_grad()
Validate ==
    /\ pc = "validate"
    /\ trainer' = [trainer EXCEPT !.model = "eval"]
    /\ val_acc' \in 0..MaxAcc
    /\ validate_calls' = validate_calls + 1
    /\ pc' = "scheduler"
    /\ UNCHANGED <<epoch, best_val_acc, best_model_pth, epoch_log, epochs, params, raised,
                   main_log, export_onnx, batches, batch, batch_ops, scheduler,
                   test_results>>
    /\ UNCHANGED serverVars
    /\ UNCHANGED toolVars

\* scheduler.step() and the logging of the epoch
SchedulerStep ==
    /\ pc = "scheduler"
    /\ scheduler' = [scheduler EXCEPT !.last_epoch = @ + 1]
    /\ pc' = "save_best"
    /\ UNCHANGED <<epoch, best_val_acc, val_acc, best_model_pth, epoch_log, epochs, params,
                   raised, main_log, export_onnx, trainer, batches, batch, batch_ops,
                   validate_calls, test_results>>
    /\ UNCHANGED serverVars
    /\ UNCHANGED toolVars

\* "Save best model": the comparison, and either the call of save_model up to
\* torch.save opening models/best_model.pth, or the loop's step to the next epoch
SaveBest ==
    /\ pc = "save_best"
    /\ IF ShouldSave(val_acc, best_val_acc)
       THEN /\ best_val_acc' = val_acc
            /\ best_model_pth' = PartialFile
            /\ epoch_log' = Append(epoch_log,
                               [val_acc |-> val_acc, saves |-> 1, params |-> params])
            /\ pc' = "torch_save"
            /\ UNCHANGED epoch
       ELSE /\ UNCHANGED <<best_val_acc, best_model_pth>>
            /\ epoch_log' = Append(epoch_log,
                               [val_acc |-> val_acc, saves |-> 0, params |-> params])
            /\ epoch' = epoch + 1
            /\ pc' = IF InRange(epoch + 1, epochs) THEN "epoch" ELSE "done"
    /\ UNCHANGED <<val_acc, epochs, params, raised, main_log, export_onnx, trainer, batches,
                   batch, batch_ops, scheduler, validate_calls, test_results>>
    /\ UNCHANGED serverVars
    /\ UNCHANGED toolVars

\* torch.save(checkpoint, model_dir / filename) writes the rest of the file
\* and returns; the loop steps to the next epoch
TorchSave ==
    /\ pc = "torch_save"
    /\ best_model_pth' = save_model(epoch, val_acc, params)
    /\ epoch' = epoch + 1
    /\ pc' = IF InRange(epoch + 1, epochs) THEN "epoch" ELSE "done"
    /\ UNCHANGED <<best_val_acc, val_acc, epoch_log, epochs, params, raised, main_log,
                   export_onnx, trainer, batches, batch, batch_ops, scheduler,
                   validate_calls, test_results>>
    /\ UNCHANGED serverVars
    /\ UNCHANGED toolVars

\* a step inside an epoch raises (an I/O error of the data loader, the device
\* out of memory, the disk full while torch.save writes, KeyboardInterrupt):
\* neither train() nor main() has a try statement, so the process ends
EpochRaises ==
    /\ pc \in EpochSteps
    /\ raised' = pc
    /\ pc' = "aborted"
    /\ UNCHANGED <<epoch, best_val_acc, val_acc, best_model_pth, epoch_log, epochs, params,
                   main_log, export_onnx, trainer, batches, batch, batch_ops, scheduler,
                   validate_calls, test_results>>
    /\ UNCHANGED serverVars
    /\ UNCHANGED toolVars

\* main(): test_results = trainer.test(): self.model.eval(), then the test
\* set under torch.no_grad()
MainTest ==
    /\ pc = "done"
    /\ main_log' = Append(main_log, "test")
    /\ trainer' = [trainer EXCEPT !.model = "eval"]
    /\ test_results' = test(params, best_model_pth)
    /\ pc' = "write_results"
    /\ UNCHANGED <<epoch, best_val_acc, val_acc, best_model_pth, epoch_log, epochs, params,
                   raised, export_onnx, batches, batch, batch_ops, scheduler,
                   validate_calls>>
    /\ UNCHANGED serverVars
    /\ UNCHANGED toolVars

\* main(): json.dump(test_results, ...) into test_results.json, which raises
\* TypeError for a value json cannot serialise
MainWriteResults ==
    /\ pc = "write_results"
    /\ main_log' = Append(main_log, "test_results.json")
    /\ \/ /\ pc' = AfterResults(export_onnx)
          /\ UNCHANGED raised
       \/ /\ raised' = "test_results.json"
          /\ pc' = "aborted"
    /\ UNCHANGED <<epoch, best_val_acc, val_acc, best_model_pth, epoch_log, epochs, params,
                   export_onnx, trainer, batches, batch, batch_ops, scheduler,
                   validate_calls, test_results>>
    /\ UNCHANGED serverVars
    /\ UNCHANGED toolVars

\* main(): if args.export_onnx: trainer.export_onnx('models/best_model.pth', ...):
\* torch.load of the file, load_state_dict into self.model, eval(), export
MainExport ==
    /\ pc = "export"
    /\ main_log' = Append(main_log, "export_onnx")
    /\ IF best_model_pth.exists /\ best_model_pth.complete
       THEN /\ params' = best_model_pth.params
            /\ trainer' = [trainer EXCEPT !.model = "eval"]
            /\ pc' = "exit"
            /\ UNCHANGED raised
       ELSE /\ raised' = "export_onnx"
            /\ pc' = "aborted"
            /\ UNCHANGED <<params, trainer>>
    /\ UNCHANGED <<epoch, best_val_acc, val_acc, best_model_pth, epoch_log, epochs,
                   export_onnx, batches, batch, batch_ops, scheduler, validate_calls,
                   test_results>>
    /\ UNCHANGED serverVars
    /\ UNCHANGED toolVars

NextTrain ==
    \/ MainPrepareData
    \/ MainBuildModel
    \/ TrainBegin
    \/ EpochBegin
    \/ ZeroGrad
    \/ Forward
    \/ Loss
    \/ Backward
    \/ OptimizerStep
    \/ Validate
    \/ SchedulerStep
    \/ SaveBest
    \/ TorchSave
    \/ EpochRaises
    \/ MainTest
    \/ MainWriteResults
    \/ MainExport

SpecTrain == InitTrain /\ [][NextTrain]_vars

\* the run of main() as the interpreter executes it: a statement that can
\* run does run
SpecTrainFair == SpecTrain /\ WF_vars(NextTrain)

(***************************************************************************)
(* CalAiModelServer._estimate_nutrition as a function of its argument      *)
(***************************************************************************)
\* the server and the trainer at rest
InitServerIdle ==
    /\ variant = "model_server"
    /\ MODEL_PATH = NoCheckpoint("missing")
    /\ model_server = NewServer
    /\ started = FALSE
    /\ load_result = "none"
    /\ topk_ties = "low"
    /\ clock = 0
    /\ request = NoRequest
    /\ response = NoResponse
    /\ previous = NoResponse

InitNutrition ==
    /\ InitServerIdle
    /\ InitTrainIdle
    /\ InitHeadIdle
    /\ InitDownloadIdle
    /\ lookup_name \in FoodNames
    /\ estimate = NoNutrition
    /\ InitCtorIdle
    /\ InitExportIdle
    /\ InitDataIdle

\* one call of self._estimate_nutrition(food_name)
EstimateNutrition ==
    /\ estimate = NoNutrition
    /\ estimate' = _estimate_nutrition(lookup_name)
    /\ UNCHANGED lookup_name
    /\ UNCHANGED <<serverVars, trainVars, headVars, downloadVars, ctorVars, exportVars, dataVars>>

NextNutrition ==
    \/ EstimateNutrition

SpecNutrition == InitNutrition /\ [][NextNutrition]_vars

(***************************************************************************)
(* FoodClassificationModel(...) as a function of its arguments             *)
(***************************************************************************)
\* the names a configuration or a checkpoint may carry
ModelNames == SupportedArchs \cup TimmModels \cup {"no_such_arch", ""}

InitModel ==
    /\ InitServerIdle
    /\ InitTrainIdle
    /\ InitHeadIdle
    /\ InitDownloadIdle
    /\ InitNutritionIdle
    /\ \E module \in ModelModules, n \in 1..MaxCkptClasses, name \in ModelNames,
          pretrained \in BOOLEAN :
            /\ module = "model_server_old" => ~pretrained   \* it has no such parameter
            /\ ctor_args = [module |-> module, num_classes |-> n, model_name |-> name,
                            pretrained |-> pretrained]
    /\ ctor_result = NotConstructed
    /\ InitExportIdle
    /\ InitDataIdle

\* one call of the constructor
Construct ==
    /\ ctor_result = NotConstructed
    /\ ctor_result' = FoodClassificationModel(ctor_args.module, ctor_args.num_classes,
                                              ctor_args.model_name, ctor_args.pretrained)
    /\ UNCHANGED ctor_args
    /\ UNCHANGED <<serverVars, trainVars, headVars, downloadVars, nutritionVars, exportVars, dataVars>>

NextModel ==
    \/ Construct

SpecModel == InitModel /\ [][NextModel]_vars

(***************************************************************************)
(* export_onnx.py: one run of export_model_to_onnx                         *)
(***************************************************************************)
InitExport ==
    /\ InitServerIdle
    /\ InitTrainIdle
    /\ InitHeadIdle
    /\ InitDownloadIdle
    /\ InitNutritionIdle
    /\ InitCtorIdle
    /\ export_ckpt \in ExportCheckpoints
    /\ export_files \in {NoExportFiles, OldExportFiles}
    /\ export_result = "none"
    /\ InitDataIdle

\* main() of export_onnx.py calls export_model_to_onnx once
ExportModelToOnnx ==
    /\ export_result = "none"
    /\ \E onnx_step \in OnnxSteps :
          LET r == export_model_to_onnx(export_ckpt, export_files, onnx_step)
          IN  /\ export_files' = r.files
              /\ export_result' = r.result
    /\ UNCHANGED export_ckpt
    /\ UNCHANGED <<serverVars, trainVars, headVars, downloadVars, nutritionVars, ctorVars, dataVars>>

NextExport ==
    \/ ExportModelToOnnx

SpecExport == InitExport /\ [][NextExport]_vars

(***************************************************************************)
(* FoodTrainer.prepare_data, run again and again over one directory tree   *)
(***************************************************************************)
InitData ==
    /\ InitServerIdle
    /\ InitTrainIdle
    /\ InitHeadIdle
    /\ InitDownloadIdle
    /\ InitNutritionIdle
    /\ InitCtorIdle
    /\ InitExportIdle
    /\ food101_dir \in Food101Dirs
    /\ prepared = NotPrepared
    /\ prepared_before = <<>>
    /\ runs = 0

\* one run of trainer.prepare_data(args.data_dir); the contents of the
\* directory stay as they are
PrepareData ==
    /\ runs < MaxRuns
    /\ \E order \in ListingOrders(DOMAIN food101_dir.images), shuffle \in Shuffles :
          prepared' = prepare_data(food101_dir, order, shuffle)
    /\ prepared_before' = prepared.class_names
    /\ runs' = runs + 1
    /\ UNCHANGED food101_dir
    /\ UNCHANGED <<serverVars, trainVars, headVars, downloadVars, nutritionVars, ctorVars, exportVars>>

NextData ==
    \/ PrepareData

SpecData == InitData /\ [][NextData]_vars

(***************************************************************************)
(* The nutrition head's outputs in a prediction, as a function of them     *)
(***************************************************************************)
\* the server modules that put the outputs of the learned head into a prediction
HeadModules == {"model_server_new", "model_server_old"}

\* outputs of the head in hundredths: negative, zero, between two tenths,
\* on a tenth, large
HeadValues == {-12345, -5, -4, 0, 4, 15, 23456}

InitHead ==
    /\ InitServerIdle
    /\ InitTrainIdle
    /\ InitNutritionIdle
    /\ InitCtorIdle
    /\ InitExportIdle
    /\ InitDataIdle
    /\ InitDownloadIdle
    /\ head_module \in HeadModules
    /\ nutrition_outputs \in HeadValues \X HeadValues \X HeadValues \X HeadValues
    /\ head_nutrition = NoNutrition

\* the 'estimated_nutrition' dict of one prediction
PredictNutrition ==
    /\ head_nutrition = NoNutrition
    /\ head_nutrition' = estimated_nutrition(head_module, nutrition_outputs)
    /\ UNCHANGED <<head_module, nutrition_outputs>>
    /\ UNCHANGED <<serverVars, trainVars, nutritionVars, ctorVars, exportVars, dataVars,
                   downloadVars>>

NextHead ==
    \/ PredictNutrition

SpecHead == InitHead /\ [][NextHead]_vars

(***************************************************************************)
(* download_datasets.py: download_all and download_dataset over one        *)
(* data directory                                                          *)
(***************************************************************************)
InitDownload ==
    /\ InitServerIdle
    /\ InitTrainIdle
    /\ InitNutritionIdle
    /\ InitCtorIdle
    /\ InitExportIdle
    /\ InitDataIdle
    /\ InitHeadIdle
    /\ InitDownloadIdle

\* the call record of download_dataset(name) that returned r
CallRecord(name, r) ==
    [name |-> name, raised |-> r.raised, ret |-> r.ret, attempted |-> r.attempted,
     earlier |-> results[name]]

\* what the call adds to the results seen for the dataset
Result(r) == IF r.raised THEN "raised" ELSE IF r.ret THEN "True" ELSE "False"

\* main() without --dataset: download_all(args.max_size) up to the loop; the
\* data directory is scanned once
DownloadAllBegin ==
    /\ dl_pc = "idle"
    /\ ~all_ran
    /\ all_ran' = TRUE
    /\ max_size_gb' \in MaxSizes
    /\ total_size' = 0
    /\ downloaded' = <<>>
    /\ scan_log' = <<>>
    /\ scan_pos' = 1
    /\ dl_pc' = "scan"
    /\ UNCHANGED <<data_dirs, metadata_json, results, last_call, single_calls>>
    /\ UNCHANGED <<serverVars, trainVars, nutritionVars, ctorVars, exportVars, dataVars,
                   headVars>>

\* one pass of the loop over sorted_datasets
DownloadAllStep ==
    /\ dl_pc = "scan"
    /\ scan_pos <= Len(sorted_datasets)
    /\ LET name == sorted_datasets[scan_pos].name
           size_gb == _parse_size_gb(sorted_datasets[scan_pos].size)
       IN  IF ExceedsLimit(total_size, size_gb, max_size_gb)
           THEN /\ scan_log' = Append(scan_log, [name |-> name, how |-> "skipped"])
                /\ UNCHANGED <<data_dirs, total_size, downloaded, results, last_call>>
           ELSE \E outcome \in CallOutcomes(name) :
                   LET r == download_dataset(name, data_dirs, outcome)
                   IN  /\ data_dirs' = r.dirs
                       /\ results' = [results EXCEPT ![name] = @ \cup {Result(r)}]
                       /\ last_call' = CallRecord(name, r)
                       /\ IF ~r.raised /\ r.ret
                          THEN /\ downloaded' = Append(downloaded, name)
                               /\ total_size' = total_size + size_gb
                               /\ scan_log' = Append(scan_log,
                                                 [name |-> name, how |-> "downloaded"])
                          ELSE /\ UNCHANGED <<downloaded, total_size>>
                               /\ scan_log' = Append(scan_log,
                                                 [name |-> name, how |-> "failed"])
    /\ scan_pos' = scan_pos + 1
    /\ UNCHANGED <<dl_pc, max_size_gb, metadata_json, all_ran, single_calls>>
    /\ UNCHANGED <<serverVars, trainVars, nutritionVars, ctorVars, exportVars, dataVars,
                   headVars>>

\* self._create_metadata(downloaded) after the loop
CreateMetadata ==
    /\ dl_pc = "scan"
    /\ scan_pos > Len(sorted_datasets)
    /\ metadata_json' = [exists |-> TRUE,
                         datasets |-> SelectSeq(downloaded, LAMBDA n : n \in DatasetNames)]
    /\ dl_pc' = "idle"
    /\ UNCHANGED <<data_dirs, max_size_gb, scan_pos, total_size, downloaded, scan_log,
                   results, last_call, all_ran, single_calls>>
    /\ UNCHANGED <<serverVars, trainVars, nutritionVars, ctorVars, exportVars, dataVars,
                   headVars>>

\* main() with --dataset name: one call of download_dataset(name)
DownloadOne ==
    /\ dl_pc = "idle"
    /\ single_calls < MaxSingleCalls
    /\ single_calls' = single_calls + 1
    /\ \E name \in SingleNames : \E outcome \in CallOutcomes(name) :
          LET r == download_dataset(name, data_dirs, outcome)
          IN  /\ data_dirs' = r.dirs
              /\ results' = [results EXCEPT ![name] = @ \cup {Result(r)}]
              /\ last_call' = CallRecord(name, r)
    /\ UNCHANGED <<dl_pc, max_size_gb, scan_pos, total_size, downloaded, scan_log,
                   metadata_json, all_ran>>
    /\ UNCHANGED <<serverVars, trainVars, nutritionVars, ctorVars, exportVars, dataVars,
                   headVars>>

NextDownload ==
    \/ DownloadAllBegin
    \/ DownloadAllStep
    \/ CreateMetadata
    \/ DownloadOne

SpecDownload == InitDownload /\ [][NextDownload]_vars

(***************************************************************************)
(* Properties                                                              *)
(***************************************************************************)
SetMax(S) == CHOOSE x \in S : \A y \in S : y <= x

\* the best validation accuracy of the run before epoch i (1-based), 0.0 at first
BestBefore(i) == SetMax({0} \cup {epoch_log[j].val_acc : j \in 1..(i - 1)})

\* load_model returned True in startup_event
Loaded == started /\ load_result = "true"

\* len(model_server.class_names)
ClassCount == Len(model_server.class_names)

IsPredictRequest == request.endpoint \in {"predict", "base64"}

\* the request carries an image that decodes and loads
DecodableRequest == IsPredictRequest /\ request.image \in ValidImages

NonIncreasing(preds) ==
    \A i \in 1..(Len(preds) - 1) : preds[i].confidence >= preds[i + 1].confidence

\* every entry names a class of the catalogue, and no class twice
RealEntries(preds) ==
    /\ \A i \in 1..Len(preds) :
          /\ preds[i].class_index \in 0..(ClassCount - 1)
          /\ preds[i].raw_class = model_server.class_names[preds[i].class_index + 1]
    /\ \A i, j \in 1..Len(preds) : i # j => preds[i].class_index # preds[j].class_index

\* C1: in train(), an epoch calls save_model exactly once if its validation
\* accuracy is strictly greater than the best of the run so far (0.0 at
\* first), and not at all otherwise; a tie writes no checkpoint.
C1_SaveIffStrictImprovement ==
    \A i \in 1..Len(epoch_log) :
        epoch_log[i].saves = IF epoch_log[i].val_acc > BestBefore(i) THEN 1 ELSE 0

\* an epoch saved, and a later epoch that tied with the best did not
C1_Witness ==
    /\ Len(epoch_log) >= 2
    /\ epoch_log[1].saves = 1
    /\ epoch_log[2].val_acc = epoch_log[1].val_acc
    /\ epoch_log[2].saves = 0

\* C2: when load_model returned False, the server is left unloaded:
\* self.model is None, /health reports model_loaded = false, and /predict,
\* /predict/base64 and /model/info answer 503.
C2_FailedLoadLeavesUnloaded ==
    (started /\ load_result = "false") =>
        /\ model_server.model.kind = "None"
        /\ request.endpoint = "health" => ~response.body.model_loaded
        /\ request.endpoint \in {"predict", "base64", "info"} => response.status = 503

\* C3 as stated: for every K with 0 <= K <= class count, a prediction request
\* with top_k = K on a loaded server returns exactly K entries in order of
\* non-increasing confidence.
C3_ExactlyKUpToClassCount ==
    (Loaded /\ DecodableRequest /\ request.top_k >= 0 /\ request.top_k <= ClassCount) =>
        /\ response.status = 200
        /\ response.body.success
        /\ Len(response.body.predictions) = request.top_k
        /\ NonIncreasing(response.body.predictions)

\* C3 as amended: for every K with 0 <= K <= min(10, class count), a
\* prediction request with top_k = K on a loaded server returns exactly K
\* entries in order of non-increasing confidence.
C3_ExactlyKUpToCeiling ==
    (Loaded /\ DecodableRequest /\ request.top_k >= 0
            /\ request.top_k <= ClassCount /\ request.top_k <= 10) =>
        /\ response.status = 200
        /\ response.body.success
        /\ Len(response.body.predictions) = request.top_k
        /\ NonIncreasing(response.body.predictions)

\* top_k = 10 on the 101-class server returned ten entries of differing confidence
C3_Witness ==
    /\ Loaded /\ DecodableRequest
    /\ request.top_k = 10
    /\ Len(response.body.predictions) = 10
    /\ response.body.predictions[1].confidence > response.body.predictions[10].confidence

\* C4: a prediction request on a loaded server whose top_k exceeds the class
\* count or the ceiling 10 succeeds and returns min(top_k, 10, class count)
\* entries, each a class of the catalogue (none padded, none empty).
C4_TopKClamped ==
    (Loaded /\ DecodableRequest /\ (request.top_k > ClassCount \/ request.top_k > 10)) =>
        /\ response.status = 200
        /\ response.body.success
        /\ Len(response.body.predictions) =
              (IF ClassCount < 10 THEN ClassCount ELSE 10)
        /\ RealEntries(response.body.predictions)

\* top_k above the class count of a small checkpoint: all its classes, no more
C4_Witness ==
    /\ Loaded /\ DecodableRequest
    /\ ClassCount < 10
    /\ request.top_k > ClassCount
    /\ Len(response.body.predictions) = ClassCount

\* C5: every processing failure during POST /predict on a loaded server
\* (undecodable image, failure in preprocessing, forward pass or top-k
\* selection such as a negative top_k) is answered 500, and a 200 response
\* carries success = true.
C5_ProcessingFailureIs500 ==
    (Loaded /\ request.endpoint = "predict") =>
        /\ (request.image \notin ValidImages \/ request.top_k < 0) => response.status = 500
        /\ response.status = 200 => response.body.success

\* C6: a zero-byte upload to POST /predict is answered with a client error
\* (4xx), not a 500.
C6_EmptyUploadIsClientError ==
    (Loaded /\ request.endpoint = "predict" /\ request.image = "empty") =>
        response.status \in 400..499

\* C7: POST /predict/base64 without an image field, or with an image that is
\* not decodable base64, is answered with a client error (4xx).
C7_BadBase64IsClientError ==
    (Loaded /\ request.endpoint = "base64"
            /\ request.field.form \in {"absent", "not_base64"}) =>
        response.status \in 400..499

\* C8: while model_server.model is None, /model/info, /predict and
\* /predict/base64 answer 503 without predictions, and /health answers 200
\* with model_loaded = false.
C8_UnloadedAnswers503 ==
    (started /\ model_server.model.kind = "None") =>
        /\ request.endpoint \in {"info", "predict", "base64"} =>
              /\ response.status = 503
              /\ response.body.predictions = <<>>
              /\ ~response.body.success
        /\ request.endpoint = "health" =>
              /\ response.status = 200
              /\ ~response.body.model_loaded

\* a failed load left model None and a prediction request was turned away
C8_Witness ==
    /\ started /\ load_result = "false"
    /\ model_server.model.kind = "None"
    /\ request.endpoint = "predict"
    /\ request.image \in ValidImages
    /\ response.status = 503

\* C9 as stated: two successive /health calls, and two successive
\* /model/info calls, return identical responses.
C9_RepeatedGetIdentical ==
    (request.endpoint \in {"health", "info"} /\ previous.status # 0) =>
        response = previous

\* C9 as amended: two successive /model/info calls return identical
\* responses, and two successive /health calls return responses identical in
\* every field other than timestamp.
C9_RepeatedGetIdenticalButTimestamp ==
    (request.endpoint \in {"health", "info"} /\ previous.status # 0) =>
        /\ response.status = previous.status
        /\ request.endpoint = "info" => response.body = previous.body
        /\ request.endpoint = "health" =>
              [response.body EXCEPT !.timestamp = 0] = [previous.body EXCEPT !.timestamp = 0]

\* a second /health call after the clock moved, on a loaded server
C9_Witness ==
    /\ Loaded
    /\ request.endpoint = "health"
    /\ previous.status = 200
    /\ response.body.timestamp # previous.body.timestamp
    /\ response.body.model_loaded

\* C10: once startup_event has run, no step of the server changes
\* model_server (model, class_names, model_info, transform) or what load_model
\* returned, whatever requests are served and whether they succeed or fail.
C10_RequestsLeaveServerState ==
    [][started => (model_server' = model_server /\ load_result' = load_result)]_vars

\* a request failed on a loaded server and the model is still loaded
C10_Witness ==
    /\ Loaded
    /\ request.endpoint = "predict"
    /\ response.status = 500
    /\ model_server.model.kind = "loaded"
    /\ model_server.transform = ServerTransform

\* C11: _estimate_nutrition("chocolate_cake") returns the values of the
\* "chocolate" bucket: calories 400, protein 6, carbs 45, fat 20.
C11_ChocolateCakeIsChocolateBucket ==
    (lookup_name = "chocolate_cake" /\ estimate # NoNutrition) =>
        estimate = Nutrition(400, 6, 45, 20)

\* C12: a checkpoint written by FoodTrainer.save_model is loaded by the
\* server's load_model: it returns True and the server holds the loaded model
\* of the checkpoint's architecture and output size.
C12_SavedCheckpointLoads ==
    (started /\ MODEL_PATH.kind = "trainer" /\ MODEL_PATH.model_name \in SupportedArchs) =>
        /\ load_result = "true"
        /\ model_server.model.kind = "loaded"
        /\ model_server.model.num_classes = MODEL_PATH.num_classes

\* C13: the transform a loaded server applies to a request's picture gives
\* the tensor that val_transform of prepare_data gives for the same picture:
\* the whole picture resized to 224 x 224, normalised with the same
\* constants, as a CHW tensor.
C13_ServerTransformIsValTransform ==
    (Loaded /\ DecodableRequest) =>
        SameTensor(Compose(model_server.transform, Picture(request.image)),
                   Compose(val_transform, Picture(request.image)))

\* the file save_model wrote in the epoch of epoch-log entry i (1-based)
CheckpointOf(i) ==
    [exists |-> TRUE, complete |-> TRUE, epoch |-> i - 1,
     accuracy |-> epoch_log[i].val_acc, params |-> epoch_log[i].params]

\* the last of the first n epochs that called save_model, 0 if none did
LastSaveBefore(n) ==
    SetMax({0} \cup {i \in 1..Min(n, Len(epoch_log)) : epoch_log[i].saves = 1})

\* C14: when a step inside an epoch of train() has raised, the run is over:
\* no step of train() follows, main() runs neither test(), the writing of
\* test_results.json nor the export, and the checkpoint an earlier epoch
\* saved is on disk as that epoch wrote it.
C14_ExceptionAbortsRun ==
    raised \in EpochSteps =>
        /\ pc = "aborted"
        /\ main_log = <<"prepare_data", "build_model", "train">>
        /\ LastSaveBefore(epoch) > 0 => best_model_pth = CheckpointOf(LastSaveBefore(epoch))

\* C15: the write of the checkpoint is atomic: when the run ends while
\* torch.save is writing, models/best_model.pth exists and is a complete
\* checkpoint, the previous one or the new one.
C15_CheckpointWriteAtomic ==
    raised = "torch_save" => (best_model_pth.exists /\ best_model_pth.complete)

\* the highest validation accuracy of the epochs logged so far
LogMax == SetMax({0} \cup {epoch_log[i].val_acc : i \in 1..Len(epoch_log)})

\* the first epoch-log entry that attained LogMax
EarliestBest ==
    CHOOSE i \in 1..Len(epoch_log) :
        /\ epoch_log[i].val_acc = LogMax
        /\ \A j \in 1..(i - 1) : epoch_log[j].val_acc < LogMax

\* models/best_model.pth is a complete checkpoint written by this run
WrittenThisRun ==
    /\ best_model_pth.exists /\ best_model_pth.complete
    /\ \E i \in 1..Len(epoch_log) : epoch_log[i].saves = 1

\* C16: best_val_acc never decreases, and a checkpoint written in the run
\* holds the epoch index, validation accuracy and parameters of the earliest
\* epoch that attained the highest validation accuracy so far, its accuracy
\* being best_val_acc.
C16_CheckpointHoldsEarliestBest ==
    /\ [][best_val_acc' >= best_val_acc]_vars
    /\ [](WrittenThisRun =>
            /\ best_model_pth = CheckpointOf(EarliestBest)
            /\ best_model_pth.accuracy = best_val_acc)

\* the second epoch improved on the first and overwrote its checkpoint, the
\* third did not improve
C16_Witness ==
    /\ Len(epoch_log) = 3
    /\ epoch_log[1].saves = 1 /\ epoch_log[2].saves = 1 /\ epoch_log[3].saves = 0
    /\ best_model_pth.complete /\ best_model_pth.epoch = 1
    /\ pc = "exit"

\* the constructor has been called
Constructed == ctor_result # NotConstructed

\* C17 as stated: a model_name outside the fixed set of supported
\* architectures makes the constructor fail, in every module's class.
C17_OutsideFixedSetFails ==
    (Constructed /\ ctor_args.model_name \notin SupportedArchs) =>
        ctor_result.raised \notin {"none", ""}

\* C17 amended: a model_name that is neither one of the names the class
\* handles itself nor one timm can create makes the constructor fail, with
\* timm's error in train.py and model_server_new.py; in model_server_old.py
\* every name but efficientnet_b0 raises ValueError.
C17_UnknownNameFails ==
    Constructed =>
        /\ (/\ ctor_args.module # "model_server_old"
            /\ ctor_args.model_name \notin SupportedArchs \cup TimmModels)
                => ctor_result.raised = "RuntimeError"
        /\ (/\ ctor_args.module = "model_server_old"
            /\ ctor_args.model_name # "efficientnet_b0")
                => ctor_result.raised = "ValueError"

\* the trainer's class was asked for a name nobody knows, and raised
C17_Witness ==
    /\ ctor_args.module = "train"
    /\ ctor_args.model_name = "no_such_arch"
    /\ ctor_result.raised = "RuntimeError"

\* C18: export_model_to_onnx ends with an error whenever the checkpoint it
\* loaded lacks num_classes, config.model_name, model_state_dict or
\* class_names, or names an architecture no model can be constructed for.
C18_ExportFailsOnBadCheckpoint ==
    (/\ export_result # "none"
     /\ export_ckpt.kind = "dict"
     /\ \/ ~(RequiredKeys \subseteq export_ckpt.keys)
        \/ export_ckpt.model_name \notin SupportedArchs \cup TimmModels)
        => export_result \in {"KeyError", "RuntimeError", "ValidationError"}

\* the checkpoint lacked class_names alone: the call got as far as writing
\* the .onnx file and failed at the metadata
C18_Witness ==
    /\ export_ckpt.kind = "dict"
    /\ RequiredKeys \ export_ckpt.keys = {"class_names"}
    /\ export_ckpt.model_name = "efficientnet_b0"
    /\ export_result = "KeyError"
    /\ export_files.onnx = "new"

\* every sample's label is an index into class_names, and class_names names
\* the sample's class directory at that index
LabelsInPlace(samples) ==
    \A i \in 1..Len(samples) :
        /\ samples[i].label \in 0..(Len(prepared.class_names) - 1)
        /\ prepared.class_names[samples[i].label + 1] = samples[i].dir

\* C19: every label prepare_data produces is an integer in
\* [0, len(class_names)) and the position of the sample's class directory
\* name in class_names; the train, validation and test datasets hold only
\* such labels, and num_classes is len(class_names).
C19_LabelsIndexClassNames ==
    /\ LabelsInPlace(prepared.samples)
    /\ LabelsInPlace(prepared.train)
    /\ LabelsInPlace(prepared.val)
    /\ LabelsInPlace(prepared.test)
    /\ prepared.result = "returned" => prepared.num_classes = Len(prepared.class_names)

\* a run returned with samples of the first and the third class of
\* classes.txt (the second has no directory), spread over the datasets
C19_Witness ==
    /\ prepared.result = "returned"
    /\ prepared.class_names = <<"apple_pie", "donuts", "baklava">>
    /\ \E i \in 1..Len(prepared.train) : prepared.train[i].label = 2
    /\ \E i \in 1..Len(prepared.test) : prepared.test[i].label = 0
    /\ prepared.val # <<>>

\* C20: over the same directory tree every run of prepare_data gives each
\* class name the same index, with classes.txt and without it.
C20_SameClassIndexEveryRun ==
    (runs >= 2 /\ prepared.result = "returned") => prepared.class_names = prepared_before

\* the phases of main() in the order of its statements
MainOrder ==
    <<"prepare_data", "build_model", "train", "test", "test_results.json", "export_onnx">>

\* C21: main() enters its phases in the order prepare_data, build_model,
\* train, test and, only if --export-onnx was given, export_onnx, each at
\* most once; build_model is entered with the loaders set, train with the
\* model built, test with every epoch of train() run, the export with the
\* test done; and train() never runs while the model or the loaders are unset.
C21_MainPhasesInOrder ==
    /\ Len(main_log) <= Len(MainOrder)
    /\ main_log = SubSeq(MainOrder, 1, Len(main_log))
    /\ Len(main_log) = 6 => export_onnx
    /\ pc = "exit" => Len(main_log) = (IF export_onnx THEN 6 ELSE 5)
    /\ Len(main_log) >= 2 => trainer.loaders
    /\ Len(main_log) >= 3 => trainer.model # "None"
    /\ Len(main_log) >= 4 => (epoch = epochs /\ Len(epoch_log) = epochs)
    /\ Len(main_log) >= 6 => test_results.tested
    /\ pc \in ({"train"} \cup EpochSteps) => (trainer.model # "None" /\ trainer.loaders)

\* a run with --export-onnx that trained two epochs and went through every phase
C21_Witness ==
    /\ pc = "exit"
    /\ main_log = MainOrder
    /\ Len(epoch_log) = 2

\* train() has returned to main()
TrainReturned ==
    \/ pc \in {"done", "write_results", "export", "exit"}
    \/ pc = "aborted" /\ raised \in {"test_results.json", "export_onnx"}

\* C22: train() runs exactly config['epochs'] epochs whatever the validation
\* accuracies are: inside the loop the epoch index is below the configured
\* count, validate() and scheduler.step() have each been called once per
\* epoch, the cosine schedule has T_max equal to the configured count, and
\* train() is left after the last epoch (or by an exception), never running on.
C22_ExactlyConfiguredEpochs ==
    /\ [](TrainReturned =>
            /\ epoch = epochs /\ Len(epoch_log) = epochs
            /\ validate_calls = epochs
            /\ scheduler = [T_max |-> epochs, last_epoch |-> epochs])
    /\ [](pc \in EpochSteps =>
            /\ epoch < epochs
            /\ scheduler.T_max = epochs
            /\ validate_calls = (IF pc \in {"scheduler", "save_best", "torch_save"}
                                 THEN epoch + 1 ELSE epoch)
            /\ scheduler.last_epoch = (IF pc \in {"save_best", "torch_save"}
                                       THEN epoch + 1 ELSE epoch))
    /\ (pc = "train") ~> (TrainReturned \/ pc = "aborted")

\* three epochs were configured, the first reached the highest accuracy
\* there is and the two after it improved nothing, and train() has returned
\* after the third
C22_Witness ==
    /\ pc = "done"
    /\ epochs = 3
    /\ epoch_log[1].val_acc = MaxAcc
    /\ epoch_log[2].saves = 0 /\ epoch_log[3].saves = 0
    /\ validate_calls = 3

\* the statements of the batch loop that precede optimizer.step()
BeforeStep == <<"zero_grad", "forward", "loss", "backward">>

\* C25: during train() the parameters change only in optimizer.step(), once
\* per batch, after zero_grad, the forward pass, the loss and backward of that
\* batch in this order, with the model in training mode; every statement of
\* the batch loop runs in training mode, whatever mode the validation of the
\* epoch before left; validate() and test() leave the model in eval mode and
\* the parameters as they were.
C25_OnlyOptimizerStepUpdates ==
    /\ [][(pc \in ({"train"} \cup EpochSteps) /\ params' # params) =>
            /\ pc = "optimizer_step"
            /\ trainer.model = "train"
            /\ batch_ops = BeforeStep
            /\ batch_ops' = Append(BeforeStep, "step")]_vars
    /\ [][(pc \in {"validate", "done"} /\ pc' # "aborted") =>
            /\ params' = params
            /\ trainer' = [trainer EXCEPT !.model = "eval"]]_vars
    /\ [](pc \in {"zero_grad", "forward", "loss", "backward", "optimizer_step"} =>
            (trainer.model = "train" /\ batch < batches))
    /\ [](pc \in {"validate", "scheduler", "save_best", "torch_save"} =>
            (batch = batches /\ params = epoch * batches + batch))

\* the second batch of the second epoch is about to be stepped: the
\* validation of the first epoch had put the model into eval mode
C25_Witness ==
    /\ pc = "optimizer_step"
    /\ epoch = 1 /\ batch = 1
    /\ batch_ops = BeforeStep
    /\ validate_calls = 1

\* C26: when train() has returned normally after at least one epoch,
\* save_model has been called in this run, so models/best_model.pth, which
\* main() passes to export_onnx, exists and is a checkpoint this run wrote.
C26_TrainLeavesCheckpoint ==
    (TrainReturned /\ epochs >= 1) =>
        /\ \E i \in 1..Len(epoch_log) : epoch_log[i].saves = 1
        /\ best_model_pth.exists /\ best_model_pth.complete
        /\ \E i \in 1..Len(epoch_log) : best_model_pth = CheckpointOf(i)

\* C27: test() measures the parameters the last training epoch left: between
\* the return of train() and the return of test() nothing loads the
\* checkpoint back into the model, so the test results are those of the
\* checkpoint on disk only when the last epoch is the one that saved it.
C27_TestUsesLastEpochParameters ==
    /\ [][(pc = "done") => params' = params]_vars
    /\ [](test_results.tested =>
            /\ test_results.params = (IF epochs = 0 THEN 0 ELSE epoch_log[epochs].params)
            /\ (best_model_pth.exists /\ test_results.params = best_model_pth.params) =>
                   (epochs >= 1 /\ epoch_log[epochs].saves = 1))

\* the first of two epochs saved the checkpoint, the second did not improve,
\* and test() measured the parameters of the second
C27_Witness ==
    /\ test_results.tested
    /\ epochs = 2
    /\ epoch_log[1].saves = 1 /\ epoch_log[2].saves = 0
    /\ best_model_pth.params # test_results.params
    /\ test_results.params = epoch_log[2].params

\* the four values of an "estimated_nutrition"
NutritionValues(n) == <<n.calories, n.protein, n.carbs, n.fat>>

\* C23 as stated: each of the four values of a prediction is >= 0, equal to
\* the output of the head when that is non-negative and 0 otherwise.
C23_HeadValuesClamped ==
    head_nutrition # NoNutrition =>
        \A i \in 1..4 :
            LET v == NutritionValues(head_nutrition)[i]
                out == nutrition_outputs[i]
                hundredths == IF head_module = "model_server_new" THEN 10 * v ELSE v
            IN  /\ v >= 0
                /\ hundredths = (IF out >= 0 THEN out ELSE 0)

\* C23: each of the four values of a prediction is >= 0 and is 0 when the
\* output of the head is negative; when it is non-negative the value is the
\* output itself in model_server_old.py and the output rounded to one
\* decimal, at most 0.05 away from it, in model_server_new.py.
C23_HeadValuesClampedAfterRounding ==
    head_nutrition # NoNutrition =>
        \A i \in 1..4 :
            LET v == NutritionValues(head_nutrition)[i]
                out == nutrition_outputs[i]
            IN  /\ v >= 0
                /\ out < 0 => v = 0
                /\ (out >= 0 /\ head_module = "model_server_old") => v = out
                /\ (out >= 0 /\ head_module = "model_server_new") =>
                       /\ v = Round1(out)
                       /\ 10 * v - out \in -5..5

\* model_server_new.py turned 234.56 into 234.6 and a negative output into 0
C23_Witness ==
    /\ head_module = "model_server_new"
    /\ nutrition_outputs[1] = 23456 /\ head_nutrition.calories = 2346
    /\ nutrition_outputs[3] < 0 /\ head_nutrition.carbs = 0

\* the positions of the keywords of nutrition_defaults, before "default",
\* that occur in the lower-cased name
KeywordHits(name) ==
    {i \in 1..(Len(nutrition_defaults) - 1) : Contains(nutrition_defaults[i][1], Lower(name))}

\* C24: _estimate_nutrition returns the values of the first keyword of the
\* table, in table order, that occurs in the lower-cased name, and those of
\* "default" when no keyword occurs; what it returns is always one of the
\* entries of the table.
C24_FirstKeywordInTableOrder ==
    estimate # NoNutrition =>
        /\ KeywordHits(lookup_name) = {} =>
               estimate = nutrition_defaults[Len(nutrition_defaults)][2]
        /\ \A i \in KeywordHits(lookup_name) :
               (\A j \in KeywordHits(lookup_name) : i <= j) =>
                   estimate = nutrition_defaults[i][2]
        /\ \E i \in 1..Len(nutrition_defaults) : estimate = nutrition_defaults[i][2]

\* a class name of the catalogue with two keywords of the table: "cake"
\* comes first in the table and gives the values
C24_Witness ==
    /\ lookup_name = "chocolate_cake"
    /\ KeywordHits(lookup_name) = {1, 3}
    /\ estimate = nutrition_defaults[1][2]

\* the declared size of a dataset in units of 1/1024 GB: 5 GB, 2 GB, 1.5 GB,
\* 3 GB and 500 MB
DeclaredSize(name) ==
    CASE name = "food101" -> 5120
      [] name = "uecfood256" -> 2048
      [] name = "nutrition5k" -> 1536
      [] name = "openfoodfacts" -> 3072
      [] name = "usda_nutrition" -> 500

\* the names of the first n entries of the scan log that were recorded as downloaded
RECURSIVE RecordedIn(_)
RecordedIn(n) ==
    IF n = 0 THEN <<>>
    ELSE IF scan_log[n].how = "downloaded"
         THEN Append(RecordedIn(n - 1), scan_log[n].name)
         ELSE RecordedIn(n - 1)

RECURSIVE SumDeclared(_)
SumDeclared(names) ==
    IF names = <<>> THEN 0 ELSE DeclaredSize(names[1]) + SumDeclared(Tail(names))

\* C28: download_all visits the datasets in ascending priority; at every
\* step the declared sizes of the datasets recorded as downloaded sum to
\* total_size and to at most max_size_gb; a dataset is skipped exactly when
\* its size would take the sum over the limit, and a skipped dataset or one
\* whose download_dataset call returned False or raised adds nothing and
\* does not stop the scan; metadata.json lists exactly the datasets recorded.
C28_DownloadAllWithinLimit ==
    all_ran =>
        /\ Len(scan_log) = Min(scan_pos, Len(datasets) + 1) - 1
        /\ \A i \in 1..Len(scan_log) : DatasetConfig(scan_log[i].name).priority = i
        /\ downloaded = RecordedIn(Len(scan_log))
        /\ total_size = SumDeclared(downloaded)
        /\ total_size <= max_size_gb
        /\ \A i \in 1..Len(scan_log) :
              scan_log[i].how = "skipped" <=>
                  SumDeclared(RecordedIn(i - 1)) + DeclaredSize(scan_log[i].name) > max_size_gb
        /\ (dl_pc = "scan" /\ Len(scan_log) > 0 /\ scan_log[Len(scan_log)].how # "skipped") =>
              /\ last_call.name = scan_log[Len(scan_log)].name
              /\ scan_log[Len(scan_log)].how = "downloaded" <=>
                     (last_call.ret /\ ~last_call.raised)
        /\ dl_pc = "scan" => ~metadata_json.exists
        /\ dl_pc = "idle" =>
              /\ Len(scan_log) = Len(datasets)
              /\ metadata_json = [exists |-> TRUE, datasets |-> downloaded]

\* a scan with a limit of 2 GB: food101 is skipped for its size, the
\* download of uecfood256 fails, nutrition5k is downloaded, openfoodfacts is
\* skipped and usda_nutrition still fits
C28_Witness ==
    /\ all_ran /\ dl_pc = "idle"
    /\ max_size_gb = 2048
    /\ [i \in 1..5 |-> scan_log[i].how] =
          <<"skipped", "failed", "downloaded", "skipped", "downloaded">>
    /\ total_size = 2036
    /\ metadata_json.datasets = <<"nutrition5k", "usda_nutrition">>

\* C29: a call of download_dataset for a dataset whose earlier calls all
\* returned False attempts the download again, and a call returns True
\* without downloading only when an earlier call for the dataset returned True.
C29_FailedDownloadIsRetried ==
    last_call.name \in DatasetNames =>
        /\ ("False" \in last_call.earlier /\ "True" \notin last_call.earlier) =>
               (last_call.attempted \/ last_call.raised)
        /\ (last_call.ret /\ ~last_call.attempted) => "True" \in last_call.earlier

\* C30: export_model_to_onnx is all-or-nothing: the metadata file is written
\* only when the ONNX file was exported and passed the checker, and a call
\* that raised has written neither the ONNX file nor the metadata file.
C30_ExportAllOrNothing ==
    /\ export_files.metadata = "new" =>
           (export_files.onnx = "new" /\ export_result = "returned")
    /\ export_result \notin {"none", "returned"} =>
           (export_files.onnx # "new" /\ export_files.metadata # "new")

====
